---- MODULE Spec2Model ----
(***************************************************************************)
(* A model of the package-tracking dashboard (MunByn_FirebaseWebApp):      *)
(*   - the device-labeling service (registerDeviceIfNew and its Firestore  *)
(*     transaction),                                                       *)
(*   - the pagination hook useFirestoreSearchWithServerSidePagination,     *)
(*   - the prefix-search range built by nextString,                        *)
(*   - the bulk deletion by date range of the Admin page.                  *)
(* Each part has its own specification over the shared variables; the      *)
(* parts that a specification does not exercise stay in their initial      *)
(* state.                                                                  *)
(***************************************************************************)
EXTENDS Integers, Sequences, FiniteSets, TLC

VARIABLES
    \* ---- device service (services/deviceService.ts) ----
    devices,        \* the 'devices' collection: deviceId -> document
    deviceLabelCache, \* the in-memory Map deviceId -> label (0: no entry)
    calls,          \* the registerDeviceIfNew calls, one record per call
    clock,          \* what Timestamp.now() returns
    created,        \* ghost: how many times a document was created per id
    firstLabel,     \* ghost: the label written when the document was created
    \* ---- pagination hook (useFirestoreSearchWithServerSidePagination.ts) ----
    packages,       \* the documents of the collection the hook queries
    options,        \* the hook's options: pageSize, orderByField, direction, filters
    data,           \* useState: the current page of records
    page,           \* useState: the current page number
    hasNext,        \* useState: whether a next page exists
    loading,        \* useState
    error,          \* useState: string | null
    totalCount,     \* useState: number | undefined
    cursors,        \* cursorsRef.current; cursors[i + 1] is the code's index i
    mounted,        \* whether the reset effect has run
    hookCall,       \* the navigation call in progress
    pageQuery,      \* the getDocs of runPage in flight
    countQuery,     \* whether the getCountFromServer of fetchCount is in flight
    settled,        \* how the last getDocs of runPage settled
    issued,         \* queries the call in progress has issued
    \* ---- the range of a startsWith filter, tried on one stored string ----
    searchValue,    \* the filter's value
    storedString,   \* the tracking field of a stored document
    rangeBuilt,     \* the where constraints buildConstraints made of the filter
    inRange,        \* "yes" or "no" once the document was matched, "" before
    \* ---- bulk deletion by date range (pages/Admin.tsx, pages/Home.tsx) ----
    pageVariant,    \* which page holds the dialog: "Admin" or "Home"
    showDeleteModal, \* useState
    startDate,      \* useState: Date | undefined
    endDate,        \* useState: Date | undefined
    isDeleting,     \* useState
    deleteRun,      \* the handleDeleteByDateRange call in progress or finished
                    \* last: its dates, its place, and what it has done so far
    clicks,         \* the parity of the number of handleDeleteByDateRange calls
    \* ---- CSV export (components/ExportModal.tsx) ----
    items,          \* the TrackingItem list handleExportCSV builds
    csvContent,     \* the text of the file it offers for download (<<>>: none)
    isOpen,         \* DashboardHeader's isExportModalOpen, the modal's prop
    dateRange,      \* useState: {startDate, endDate}, each a day or null
    selectedCarrier, \* useState
    availableCarriers, \* useState: the carrier names of the dropdown
    errors,         \* useState: errors.dateRange, "" when unset
    exportLoading,  \* useState loading of the modal
    carriersQuery,  \* whether the getDocs of fetchAllCarriers is in flight
    exportRun,      \* the handleExportCSV call in progress or finished last
    exportClicks,   \* the parity of the number of handleExportCSV calls
    \* ---- carrier names (services/kpiService.ts, components/ChartsSection.tsx) ----
    normalizer,     \* whose normalization: "breakdown" or "chart"
    carrierValue,   \* the carrier of a scan: a string or an object
    normalized,     \* the names obtained by normalizing it, then the result
    \* ---- session and routes (contexts/AuthContext.tsx, components/AuthRoute.tsx,
    \*      pages/Login.tsx, main.tsx) ----
    firebaseUser,   \* whether Firebase Auth holds a signed-in user
    authEvents,     \* the onAuthStateChanged notifications not yet delivered
    tokenWaits,     \* the callbacks of onAuthStateChanged awaiting getIdToken()
    isAuthenticated, \* authState.isAuthenticated
    authLoading,    \* useState loading of AuthProvider
    location,       \* the router's location: pathname and state.from.pathname
    screen,         \* the element the matched route renders
    loginForm,      \* the state of the mounted Login: email, password, error
    submit,         \* the handleSubmit call in progress or finished last
    \* ---- the search box of the table (components/TrackingTable.tsx) ----
    inputValue,     \* useState: the text of the search input
    searchQuery,    \* useState: the search text the table is filtered by
    currentPage,    \* paginationState.currentPage
    searchTimeoutRef, \* searchTimeoutRef.current: a timer id, 0 for null
    timers,         \* the pending setTimeout callbacks of handleInputChange
    keystroke,      \* the last change event of the input and its age in ms
    refreshing,     \* whether a handleRefresh awaits fetchAllCarriers
    tableQuery,     \* the arguments of the fetchPagedData issued last
    \* ---- the pagination hook when its options change or reset() is called ----
    stale,          \* the getDocs of earlier runPage calls still in flight
    counts,         \* the getCountFromServer in flight: their constraints
    latest,         \* ghost: the getDocs issued last
    \* ---- the rows of the table (components/TrackingTable.tsx) ----
    filterState,    \* useState searchQuery, selectedCarrier, sortField and
                    \* sortDirection of TrackingTable, in one record
    paginationState, \* useState: currentPage, itemsPerPage, totalItems, lastVisible
    trackingItems,  \* useState: the rows displayed
    tableError,     \* useState error of TrackingTable, as whether it is set
    rowsFetch,      \* the fetchData of the fetch effect in progress
    \* ---- the KPI row (components/ChartsSection.tsx, KpiSummaryRow) ----
    kpiData,        \* useState kpiData: the values displayed
    kpiLoading,     \* useState isLoading of KpiSummaryRow
    listening,      \* the onSnapshot listener on packages is attached
    snapshots,      \* notifications of the listener not yet handled
    kpiFetches      \* the fetchKpiData calls, one record per call

devVars == <<devices, deviceLabelCache, calls, clock, created, firstLabel>>
hookVars == <<packages, options, data, page, hasNext, loading, error, totalCount,
              cursors, mounted, hookCall, pageQuery, countQuery, settled, issued>>

strVars == <<searchValue, storedString, rangeBuilt, inRange>>
delVars == <<pageVariant, showDeleteModal, startDate, endDate, isDeleting,
             deleteRun, clicks>>

csvVars == <<items, csvContent>>

expVars == <<isOpen, dateRange, selectedCarrier, availableCarriers, errors,
             exportLoading, carriersQuery, exportRun, exportClicks>>

carVars == <<normalizer, carrierValue, normalized>>

authVars == <<firebaseUser, authEvents, tokenWaits, isAuthenticated, authLoading,
              location, screen, loginForm, submit>>

tblVars == <<inputValue, searchQuery, currentPage, searchTimeoutRef, timers,
             keystroke, refreshing, tableQuery>>

raceVars == <<stale, counts, latest>>
rowVars == <<filterState, paginationState, trackingItems, tableError, rowsFetch>>
kpiVars == <<kpiData, kpiLoading, listening, snapshots, kpiFetches>>

vars == <<devVars, hookVars, strVars, delVars, csvVars, expVars, carVars, authVars,
          tblVars, raceVars, rowVars, kpiVars>>

(***************************************************************************)
(* Bounds of the model.                                                    *)
(***************************************************************************)
NumDevices == 2     \* device identifiers 1..NumDevices
NumCalls == 2       \* registerDeviceIfNew calls that may run concurrently
MaxAttempts == 2    \* attempts runTransaction makes before it rejects
MaxClock == 1       \* Timestamp.now() ranges over 0..MaxClock
MaxDocs == 4        \* documents in the packages collection
MaxPageSize == 2    \* the hook's pageSize ranges over 1..MaxPageSize
MaxTarget == 3      \* goToPage targets range over 0..MaxTarget
MaxValueLen == 2    \* length of the search values tried
MaxStoredLen == 3   \* length of the stored strings tried
MaxDeleteDocs == 2  \* documents of the collection the delete dialog works on
MaxExportDocs == 2  \* documents of the collection the export reads
MaxCarrierLen == 3  \* characters of a carrier name
MaxAuthEvents == 2  \* notifications of onAuthStateChanged not yet handled
MaxItems == 2       \* records of one export
MaxKpiScans == 3    \* scans that may be added to the packages collection
MaxKpiFetches == 2  \* fetchKpiData calls the listener may make
MaxFieldLen == 1    \* characters of a stored text the export writes
TicksPerDay == 2    \* instants per day in the model of Date
\* Queries one goToPage call may issue in the model: enough to pass its target.
MaxIssued == MaxTarget + 2

Max(a, b) == IF a >= b THEN a ELSE b
Min(a, b) == IF a <= b THEN a ELSE b

(***************************************************************************)
(* Device service.                                                         *)
(***************************************************************************)
\* The empty string, the device id registerDeviceIfNew refuses.
EmptyId == 0
DeviceIds == 1 .. NumDevices
Procs == 1 .. NumCalls

\* A document of the collection. A label n stands for 'Scanner Device n'.
\* version is the document's update time, which every write changes.
NoDevice ==
    [exists |-> FALSE, label |-> 0, scanCount |-> 0, registeredAt |-> 0,
     lastSeenAt |-> 0, isActive |-> FALSE, version |-> 0]

\* A call that has not been made yet.
IdleCall ==
    [pc |-> "idle", deviceId |-> 0, attempts |-> 0,
     readExists |-> FALSE, readVersion |-> 0,
     write |-> NoDevice, result |-> 0]

\* generateNextDeviceLabel: the number of documents the query returns, plus one.
\* The query is a plain getDocs: it is no read of the transaction.
GenerateNextDeviceLabel ==
    Cardinality({d \in DeviceIds : devices[d].exists}) + 1

\* scanCount: (deviceData.scanCount || 0) + 1
NextScanCountSame(deviceData) == deviceData.scanCount
NextScanCount(deviceData) == deviceData.scanCount + 1

\* The precondition the transaction's commit puts on the document it read:
\* the document still does not exist, or its update time is the one read.
PreconditionNone(c) == TRUE
PreconditionHolds(c) ==
    LET cur == devices[c.deviceId] IN
    IF c.readExists THEN cur.exists /\ cur.version = c.readVersion
    ELSE ~cur.exists

\* registerDeviceIfNew(deviceId) is called. The calls are numbered in the order
\* they are made.
Register(p, id) ==
    /\ calls[p].pc = "idle"
    /\ p > 1 => calls[p - 1].pc # "idle"
    /\ calls' = [calls EXCEPT ![p] =
          IF id = EmptyId
          THEN [IdleCall EXCEPT !.pc = "failed"]   \* throw 'Device ID is required'
          ELSE [IdleCall EXCEPT !.pc = "get", !.deviceId = id, !.attempts = 1]]
    /\ UNCHANGED <<devices, deviceLabelCache, clock, created, firstLabel>>

\* transaction.get(deviceRef) resolves. When the document exists the update
\* function buffers the update and returns at once.
TxGet(p) ==
    LET c == calls[p]
        doc == devices[c.deviceId] IN
    /\ c.pc = "get"
    /\ calls' = [calls EXCEPT ![p] =
          IF doc.exists
          THEN [c EXCEPT !.pc = "commit", !.readExists = TRUE,
                         !.readVersion = doc.version,
                         !.write = [doc EXCEPT !.lastSeenAt = clock,
                                               !.scanCount = NextScanCount(doc)],
                         !.result = doc.label]
          ELSE [c EXCEPT !.pc = "label", !.readExists = FALSE,
                         !.readVersion = 0]]
    /\ UNCHANGED <<devices, deviceLabelCache, clock, created, firstLabel>>

\* generateNextDeviceLabel() resolves: the new document is buffered, the cache
\* entry is set and the update function returns the label.
TxNewDevice(p) ==
    LET c == calls[p]
        label == GenerateNextDeviceLabel IN
    /\ c.pc = "label"
    /\ calls' = [calls EXCEPT ![p] =
          [c EXCEPT !.pc = "commit",
                    !.write = [exists |-> TRUE, label |-> label, scanCount |-> 1,
                               registeredAt |-> clock, lastSeenAt |-> clock,
                               isActive |-> TRUE, version |-> 0],
                    !.result = label]]
    /\ deviceLabelCache' = [deviceLabelCache EXCEPT ![c.deviceId] = label]
    /\ UNCHANGED <<devices, clock, created, firstLabel>>

\* The commit succeeds: the buffered write is applied and the call returns.
TxCommit(p) ==
    LET c == calls[p]
        cur == devices[c.deviceId] IN
    /\ c.pc = "commit"
    /\ PreconditionHolds(c)
    /\ devices' = [devices EXCEPT ![c.deviceId] =
          [c.write EXCEPT !.version = cur.version + 1]]
    /\ created' = [created EXCEPT ![c.deviceId] =
          IF c.readExists THEN @ ELSE @ + 1]
    /\ firstLabel' = [firstLabel EXCEPT ![c.deviceId] =
          IF cur.exists THEN @ ELSE c.write.label]
    /\ calls' = [calls EXCEPT ![p].pc = "done"]
    /\ UNCHANGED <<deviceLabelCache, clock>>

\* The commit fails on its precondition: runTransaction runs the update
\* function again, or rejects once its attempts are used up.
TxConflict(p) ==
    LET c == calls[p] IN
    /\ c.pc = "commit"
    /\ ~PreconditionHolds(c)
    /\ calls' = [calls EXCEPT ![p] =
          IF c.attempts < MaxAttempts
          THEN [c EXCEPT !.pc = "get", !.attempts = c.attempts + 1,
                         !.write = NoDevice, !.result = 0]
          ELSE [IdleCall EXCEPT !.pc = "failed"]]
    /\ UNCHANGED <<devices, deviceLabelCache, clock, created, firstLabel>>

\* A read or the commit fails for another reason (the network, permissions):
\* the call logs the error and throws it.
TxError(p) ==
    /\ calls[p].pc \in {"get", "label", "commit"}
    /\ calls' = [calls EXCEPT ![p] = [IdleCall EXCEPT !.pc = "failed"]]
    /\ UNCHANGED <<devices, deviceLabelCache, clock, created, firstLabel>>

\* Time passes.
Tick ==
    /\ clock < MaxClock
    /\ clock' = clock + 1
    /\ UNCHANGED <<devices, deviceLabelCache, calls, created, firstLabel>>

(***************************************************************************)
(* Prefix search: strings are sequences of 16-bit code units.              *)
(***************************************************************************)
\* String.fromCharCode keeps the low 16 bits of its argument.
CodeUnits == 65536
\* "", the upper bound nextString gives for the empty string.
MaxUnicodeChar == 63743

\* a < b for strings: the order of the query language's range filters.
RECURSIVE StrLess(_, _)
StrLess(a, b) ==
    IF b = <<>> THEN FALSE
    ELSE IF a = <<>> THEN TRUE
    ELSE IF a[1] # b[1] THEN a[1] < b[1]
    ELSE StrLess(Tail(a), Tail(b))

\* s.startsWith(v)
StartsWith(s, v) == Len(s) >= Len(v) /\ SubSeq(s, 1, Len(v)) = v

\* String.fromCharCode(last.charCodeAt(0) + 1)
BumpChar(last) == (last + 1) % CodeUnits

\* nextString(str): the upper bound of the prefix range.
nextString(str) ==
    IF str = <<>> THEN <<MaxUnicodeChar>>
    ELSE LET last == str[Len(str)]
             prefix == SubSeq(str, 1, Len(str) - 1)
         IN prefix \o <<BumpChar(last)>>

(***************************************************************************)
(* The pagination hook.                                                    *)
(***************************************************************************)
\* A package document. Odd ids have a tracking number starting with 2, even
\* ids one starting with 1; two documents share each timestamp.
PackageDoc(i) ==
    [id |-> i, tracking |-> <<1 + (i % 2), i>>,
     carrier |-> IF i % 3 = 0 THEN "FedEx" ELSE "UPS",
     timestamp |-> i \div 2]

\* No document: the null cursor of the first page.
NullCursor == [id |-> 0, tracking |-> <<>>, carrier |-> "", timestamp |-> 0]

\* The filter lists a caller passes (Home: tracking startsWith, carrier ==).
TrackingFilter == [field |-> "tracking", op |-> "startsWith", value |-> <<1>>]
CarrierFilter == [field |-> "carrier", op |-> "==", value |-> <<"UPS">>]
FilterChoices ==
    {<<>>, <<TrackingFilter>>, <<CarrierFilter>>, <<TrackingFilter, CarrierFilter>>}

\* error: string | null
NoError == [isNull |-> TRUE, message |-> ""]
\* What getDocs may reject with: an Error with a message, or a value without one.
Rejections ==
    {[hasMessage |-> TRUE, message |-> "permission-denied"],
     [hasMessage |-> FALSE, message |-> ""]}

\* totalCount: undefined
Undefined == -1

\* No getDocs in flight. A query in flight also remembers, in 'before', the
\* page, data, hasNext and cursors of the moment it was issued.
NoQuery ==
    [active |-> FALSE, pageIndex |-> 0, pageSize |-> 0, constraints |-> <<>>,
     orderField |-> "", direction |-> "", after |-> NullCursor, take |-> 0,
     before |-> <<>>]
\* A navigation call: its kind, its target page and where it is: in goToPage's
\* loop, awaiting its last runPage ("final"), or returned ("done").
NoCall == [kind |-> "none", target |-> 0, phase |-> "done"]
NotSettled == [outcome |-> "none", reason |-> [hasMessage |-> FALSE, message |-> ""]]

RECURSIVE RangeConstraints(_)
RangeConstraints(filters) ==
    IF filters = <<>> THEN <<>>
    ELSE LET f == Head(filters) IN
         (IF f.op = "startsWith"
          THEN <<[field |-> f.field, op |-> ">=", value |-> f.value],
                 [field |-> f.field, op |-> "<", value |-> nextString(f.value)]>>
          ELSE <<>>) \o RangeConstraints(Tail(filters))

RECURSIVE EqualityConstraints(_)
EqualityConstraints(filters) ==
    IF filters = <<>> THEN <<>>
    ELSE LET f == Head(filters) IN
         (IF f.op = "startsWith" THEN <<>>
          ELSE <<[field |-> f.field, op |-> f.op, value |-> f.value]>>)
         \o EqualityConstraints(Tail(filters))

\* The field of the first startsWith filter ("" when there is none).
RECURSIVE RangeField(_)
RangeField(filters) ==
    IF filters = <<>> THEN ""
    ELSE IF Head(filters).op = "startsWith" THEN Head(filters).field
    ELSE RangeField(Tail(filters))

\* buildConstraints(): the where constraints and the field the query orders by
\* ("" stands for documentId()).
BuildConstraints(opts) ==
    [constraints |-> RangeConstraints(opts.filters) \o EqualityConstraints(opts.filters),
     effectiveOrderByField |->
        IF RangeField(opts.filters) # "" THEN RangeField(opts.filters)
        ELSE opts.orderByField]

\* where(field, op, value) on a document.
Satisfies(d, c) ==
    IF c.field = "tracking"
    THEN CASE c.op = ">=" -> ~StrLess(d.tracking, c.value)
           [] c.op = "<" -> StrLess(d.tracking, c.value)
           [] OTHER -> d.tracking = c.value
    ELSE <<d.carrier>> = c.value

Matching(constraints) ==
    {d \in packages : \A i \in 1 .. Len(constraints) : Satisfies(d, constraints[i])}

\* d comes strictly before e under orderBy(field, direction); documents with
\* equal field values are ordered by their id, in the same direction.
KeyLess(field, d, e) ==
    CASE field = "tracking" -> StrLess(d.tracking, e.tracking)
      [] field = "timestamp" -> d.timestamp < e.timestamp
      [] OTHER -> d.id < e.id
Before(field, direction, d, e) ==
    LET lt == KeyLess(field, d, e)
        gt == KeyLess(field, e, d)
    IN IF direction = "asc" THEN lt \/ (~lt /\ ~gt /\ d.id < e.id)
       ELSE gt \/ (~lt /\ ~gt /\ d.id > e.id)

RECURSIVE SortDocs(_, _, _)
SortDocs(S, field, direction) ==
    IF S = {} THEN <<>>
    ELSE LET first == CHOOSE d \in S :
                 \A e \in S \ {d} : Before(field, direction, d, e)
         IN <<first>> \o SortDocs(S \ {first}, field, direction)

\* startAfter(after) on the matching documents.
StartAt(S, q) ==
    {d \in S : d = q.after \/ Before(q.orderField, q.direction, q.after, d)}
StartAfter(S, q) ==
    {d \in S : Before(q.orderField, q.direction, q.after, d)}

\* getDocs(q): the first q.take documents of the query, in order.
GetDocs(q) ==
    LET all == Matching(q.constraints)
        rest == IF q.after = NullCursor THEN all ELSE StartAfter(all, q)
        sorted == SortDocs(rest, q.orderField, q.direction)
    IN SubSeq(sorted, 1, Min(q.take, Len(sorted)))

\* limit(pageSize + 1): one more than a page, to detect a next page.
TakeExactlyPage(pageSize) == pageSize
Take(pageSize) == pageSize + 1

\* cursorsRef.current[i] (undefined, like null, when the array is shorter).
CursorAt(cur, i) == IF i + 1 <= Len(cur) THEN cur[i + 1] ELSE NullCursor

\* cursorsRef.current[i] = c
SetCursor(cur, i, c) ==
    [j \in 1 .. Max(Len(cur), i + 1) |->
        IF j = i + 1 THEN c ELSE IF j <= Len(cur) THEN cur[j] ELSE NullCursor]

\* The cursor runPage(pageIndex) starts after.
AfterCursorOfSamePage(cur, pageIndex) == CursorAt(cur, pageIndex)
AfterCursor(cur, pageIndex) == CursorAt(cur, pageIndex - 1)

\* e?.message ?? "Failed to fetch data"
ErrorMessageRaw(e) == [isNull |-> ~e.hasMessage, message |-> e.message]
ErrorMessage(e) ==
    IF e.hasMessage THEN [isNull |-> FALSE, message |-> e.message]
    ELSE [isNull |-> FALSE, message |-> "Failed to fetch data"]

\* runPage(pageIndex) up to its await of getDocs; before holds the page, data,
\* hasNext and cursors at that moment.
RunPageStartWith(opts, pageIndex, before) ==
    LET built == BuildConstraints(opts)
        cur == before[4] IN
    /\ loading' = TRUE
    /\ error' = NoError
    /\ pageQuery' =
          [active |-> TRUE, pageIndex |-> pageIndex, pageSize |-> opts.pageSize,
           constraints |-> built.constraints,
           orderField |-> built.effectiveOrderByField,
           direction |-> opts.direction,
           after |-> AfterCursor(cur, pageIndex),
           take |-> Take(opts.pageSize),
           before |-> before]
RunPageStart(pageIndex, before) == RunPageStartWith(options, pageIndex, before)

\* The call in progress once the runPage it awaits has settled: it returns,
\* unless it is goToPage in its loop.
CallAfterQuery ==
    /\ hookCall' = IF hookCall.phase = "final"
                   THEN [hookCall EXCEPT !.target = 0, !.phase = "done"]
                   ELSE hookCall
    /\ issued' = IF hookCall.phase = "final" THEN 0 ELSE issued

\* getDocs resolves: the rest of runPage's try block, and finally.
RunPageResolved(q) ==
    /\ LET docs == GetDocs(q)
           moreThanPage == Len(docs) > q.pageSize
           pageDocs == IF moreThanPage THEN SubSeq(docs, 1, q.pageSize)
                       ELSE docs
       IN /\ data' = pageDocs
          /\ hasNext' = moreThanPage
          /\ cursors' = SetCursor(cursors, q.pageIndex,
                           IF pageDocs # <<>> THEN pageDocs[Len(pageDocs)]
                           ELSE NullCursor)
          /\ page' = q.pageIndex
    /\ loading' = FALSE
RunPageOk ==
    /\ pageQuery.active
    /\ RunPageResolved(pageQuery)
    /\ pageQuery' = NoQuery
    /\ settled' = [NotSettled EXCEPT !.outcome = "ok"]
    /\ CallAfterQuery
    /\ UNCHANGED <<packages, options, error, totalCount, mounted, countQuery>>

\* getDocs rejects with e: catch, and finally.
RunPageFail(e) ==
    /\ pageQuery.active
    /\ error' = ErrorMessage(e)
    /\ loading' = FALSE
    /\ pageQuery' = NoQuery
    /\ settled' = [outcome |-> "rejected", reason |-> e]
    /\ CallAfterQuery
    /\ UNCHANGED <<packages, options, data, page, hasNext, totalCount, cursors,
                   mounted, countQuery>>

\* getCountFromServer resolves.
FetchCountOk ==
    /\ countQuery
    /\ countQuery' = FALSE
    /\ totalCount' = Cardinality(Matching(BuildConstraints(options).constraints))
    /\ UNCHANGED <<packages, options, data, page, hasNext, loading, error, cursors,
                   mounted, hookCall, pageQuery, settled, issued>>

\* getCountFromServer rejects.
FetchCountFail ==
    /\ countQuery
    /\ countQuery' = FALSE
    /\ totalCount' = Undefined
    /\ UNCHANGED <<packages, options, data, page, hasNext, loading, error, cursors,
                   mounted, hookCall, pageQuery, settled, issued>>

\* The effect 'Reset & load when deps change', run after the first render.
ResetEffect ==
    /\ ~mounted
    /\ mounted' = TRUE
    /\ cursors' = <<NullCursor>>
    /\ page' = 1
    /\ data' = <<>>
    /\ hasNext' = FALSE
    /\ RunPageStart(1, <<1, <<>>, FALSE, <<NullCursor>>>>)
    /\ IF options.withTotalCount
       THEN countQuery' = TRUE /\ UNCHANGED totalCount
       ELSE countQuery' = FALSE /\ totalCount' = Undefined
    /\ hookCall' = [kind |-> "reset", target |-> 1, phase |-> "final"]
    /\ issued' = 1
    /\ UNCHANGED <<packages, options, settled>>

\* nextPage(), called when no other call is in progress.
NextPage ==
    /\ mounted /\ hookCall.phase = "done"
    /\ ~(loading \/ ~hasNext)
    /\ RunPageStart(page + 1, <<page, data, hasNext, cursors>>)
    /\ hookCall' = [kind |-> "next", target |-> page + 1, phase |-> "final"]
    /\ issued' = 1
    /\ UNCHANGED <<packages, options, data, page, hasNext, totalCount, cursors,
                   mounted, countQuery, settled>>

\* prevPage(), called when no other call is in progress.
PrevPage ==
    /\ mounted /\ hookCall.phase = "done"
    /\ ~(loading \/ page <= 1)
    /\ RunPageStart(page - 1, <<page, data, hasNext, cursors>>)
    /\ hookCall' = [kind |-> "prev", target |-> page - 1, phase |-> "final"]
    /\ issued' = 1
    /\ UNCHANGED <<packages, options, data, page, hasNext, totalCount, cursors,
                   mounted, countQuery, settled>>

\* One turn of goToPage's loop, or the runPage(target) after it.
GoToPageStep(target) ==
    /\ IF Len(cursors) <= target - 1
       THEN /\ RunPageStart(Len(cursors), <<page, data, hasNext, cursors>>)
            /\ hookCall' = [hookCall EXCEPT !.kind = "goto", !.target = target,
                                            !.phase = "loop"]
       ELSE /\ RunPageStart(target, <<page, data, hasNext, cursors>>)
            /\ hookCall' = [hookCall EXCEPT !.kind = "goto", !.target = target,
                                            !.phase = "final"]
    /\ UNCHANGED <<packages, options, data, page, hasNext, totalCount, cursors,
                   mounted, countQuery, settled>>

\* goToPage(target), called when no other call is in progress.
GoToPage(target) ==
    /\ mounted /\ hookCall.phase = "done"
    /\ IF target < 1 THEN UNCHANGED vars
       ELSE GoToPageStep(target) /\ issued' = 1

\* goToPage resumes after the runPage it awaited in its loop.
GoToPageResume ==
    /\ hookCall.kind = "goto" /\ hookCall.phase = "loop"
    /\ ~pageQuery.active
    /\ issued < MaxIssued
    /\ GoToPageStep(hookCall.target)
    /\ issued' = issued + 1

\* The hook as constructed: the useState and useRef initial values, for a
\* collection and options of the caller's choice.
HookInit ==
    /\ \E n \in 0 .. MaxDocs : packages = {PackageDoc(i) : i \in 1 .. n}
    /\ options \in [pageSize : 1 .. MaxPageSize, orderByField : {"timestamp", ""},
                    direction : {"asc", "desc"}, withTotalCount : {TRUE},
                    filters : FilterChoices]
    /\ data = <<>>
    /\ page = 1
    /\ hasNext = FALSE
    /\ loading = FALSE
    /\ error = NoError
    /\ totalCount = Undefined
    /\ cursors = <<NullCursor>>
    /\ mounted = FALSE
    /\ hookCall = NoCall
    /\ pageQuery = NoQuery
    /\ countQuery = FALSE
    /\ settled = NotSettled
    /\ issued = 0

(***************************************************************************)
(* The pagination hook when its options change or reset() is called while  *)
(* queries are in flight. Every runPage call runs to its end whatever was  *)
(* called after it: nothing cancels a getDocs or ignores its response.     *)
(***************************************************************************)
MaxRaceDocs == 2    \* the collection holds this many documents
MaxStale == 1       \* at most this many superseded getDocs are in flight

\* The options the caller passes from one render to another: they differ in
\* the filters, the page size, the sort field or the direction.
BaseOptions ==
    [pageSize |-> 1, orderByField |-> "timestamp", direction |-> "desc",
     withTotalCount |-> TRUE, filters |-> <<>>]
RaceOptions ==
    {BaseOptions,
     [BaseOptions EXCEPT !.filters = <<CarrierFilter>>],
     [BaseOptions EXCEPT !.pageSize = 2],
     [BaseOptions EXCEPT !.orderByField = ""],
     [BaseOptions EXCEPT !.direction = "asc"]}

\* What a getDocs rejects with here.
RaceRejections == {[hasMessage |-> TRUE, message |-> "permission-denied"]}

\* A getDocs another runPage call has come after.
Superseded(q) == [q EXCEPT !.before = <<>>]

\* The body of the reset effect and of reset(): runPage and fetchCount are
\* those of the render with the options opts. No navigation is kept waiting.
LoadOnly(opts) ==
    /\ RunPageStartWith(opts, 1, <<page, data, hasNext, cursors>>)
    /\ stale' = IF pageQuery.active THEN stale \cup {Superseded(pageQuery)}
                ELSE stale
    /\ IF opts.withTotalCount
       THEN /\ counts' = counts \cup {BuildConstraints(opts).constraints}
            /\ countQuery' = TRUE
            /\ UNCHANGED totalCount
       ELSE /\ totalCount' = Undefined
            /\ UNCHANGED <<counts, countQuery>>
    /\ latest' = pageQuery'
    /\ hookCall' = [kind |-> "reset", target |-> 1, phase |-> "final"]
    /\ issued' = 1
    /\ UNCHANGED <<packages, page, data, hasNext, cursors, mounted, settled>>
ResetAndLoad(opts) ==
    /\ cursors' = <<NullCursor>>
    /\ page' = 1
    /\ data' = <<>>
    /\ hasNext' = FALSE
    /\ RunPageStartWith(opts, 1, <<1, <<>>, FALSE, <<NullCursor>>>>)
    /\ stale' = IF pageQuery.active THEN stale \cup {Superseded(pageQuery)}
                ELSE stale
    /\ IF opts.withTotalCount
       THEN /\ counts' = counts \cup {BuildConstraints(opts).constraints}
            /\ countQuery' = TRUE
            /\ UNCHANGED totalCount
       ELSE /\ totalCount' = Undefined
            /\ UNCHANGED <<counts, countQuery>>
    /\ latest' = pageQuery'
    /\ hookCall' = [kind |-> "reset", target |-> 1, phase |-> "final"]
    /\ issued' = 1
    /\ UNCHANGED <<packages, mounted, settled>>

\* The first run of the reset effect.
Mount ==
    /\ ~mounted
    /\ ResetEffect
    /\ counts' = {BuildConstraints(options).constraints}
    /\ latest' = pageQuery'
    /\ UNCHANGED stale

\* The options a and b differ in one of the filters, the page size, the sort
\* field and the direction.
OneChange(a, b) ==
    Cardinality({k \in {"filters", "pageSize", "orderByField", "direction"} :
                    a[k] # b[k]}) = 1

\* The caller renders with one of its options changed: runPage and fetchCount
\* are made anew and the reset effect runs.
SetOptions(opts) ==
    /\ mounted
    /\ OneChange(opts, options)
    /\ Cardinality(stale) < MaxStale
    /\ options' = opts
    /\ ResetAndLoad(opts)

\* reset()
ResetCall ==
    /\ mounted
    /\ Cardinality(stale) < MaxStale
    /\ UNCHANGED options
    /\ ResetAndLoad(options)

\* nextPage() once the navigation before it has returned.
NextPageCall ==
    /\ NextPage
    /\ latest' = pageQuery'
    /\ UNCHANGED <<stale, counts>>

\* The getDocs of a superseded runPage resolves: the rest of its try block,
\* and finally.
StaleRunPageOk(q) ==
    /\ q \in stale
    /\ stale' = stale \ {q}
    /\ RunPageResolved(q)
    /\ UNCHANGED <<packages, options, error, totalCount, mounted, hookCall,
                   pageQuery, countQuery, settled, issued, counts, latest>>

\* The getDocs of a superseded runPage rejects with e.
StaleRunPageFail(q, e) ==
    /\ q \in stale
    /\ stale' = stale \ {q}
    /\ error' = ErrorMessage(e)
    /\ loading' = FALSE
    /\ UNCHANGED <<packages, options, data, page, hasNext, totalCount, cursors,
                   mounted, hookCall, pageQuery, countQuery, settled, issued,
                   counts, latest>>

\* A getCountFromServer resolves: the count for the constraints it was built
\* with.
CountOk(c) ==
    /\ c \in counts
    /\ counts' = counts \ {c}
    /\ countQuery' = (counts' # {})
    /\ totalCount' = Cardinality(Matching(c))
    /\ UNCHANGED <<packages, options, data, page, hasNext, loading, error, cursors,
                   mounted, hookCall, pageQuery, settled, issued, stale, latest>>

RaceIdle ==
    /\ stale = {}
    /\ counts = {}
    /\ latest = NoQuery

\* The hook as constructed over a collection of MaxRaceDocs documents.
RaceInit ==
    /\ HookInit
    /\ Cardinality(packages) = MaxRaceDocs
    /\ options \in RaceOptions
    /\ RaceIdle

(***************************************************************************)
(* The range of a startsWith filter, tried on one stored string.           *)
(***************************************************************************)
\* Code units that strings are made of: low ones and the highest ones.
Alphabet == {0, 1, 2, CodeUnits - 1}

RECURSIVE StringsUpTo(_)
StringsUpTo(n) ==
    IF n = 0 THEN {<<>>}
    ELSE LET shorter == StringsUpTo(n - 1) IN
         shorter \cup {Append(t, c) : t \in shorter, c \in Alphabet}

\* buildConstraints on the single filter { field, op: 'startsWith', value }.
BuildRange ==
    /\ rangeBuilt = <<>>
    /\ rangeBuilt' = BuildConstraints(
          [filters |-> <<[field |-> "tracking", op |-> "startsWith",
                          value |-> searchValue]>>,
           orderByField |-> "timestamp"]).constraints
    /\ UNCHANGED <<searchValue, storedString, inRange>>

\* The query's where constraints are evaluated on the stored document.
MatchStored ==
    /\ rangeBuilt # <<>> /\ inRange = ""
    /\ inRange' =
          IF \A i \in 1 .. Len(rangeBuilt) :
                Satisfies([NullCursor EXCEPT !.tracking = storedString], rangeBuilt[i])
          THEN "yes" ELSE "no"
    /\ UNCHANGED <<searchValue, storedString, rangeBuilt>>

StrIdle ==
    /\ searchValue = <<>> /\ storedString = <<>>
    /\ rangeBuilt = <<>> /\ inRange = ""

StrInit ==
    /\ searchValue \in StringsUpTo(MaxValueLen) \ {<<>>}
    /\ storedString \in StringsUpTo(MaxStoredLen)
    /\ rangeBuilt = <<>> /\ inRange = ""

(***************************************************************************)
(* Bulk deletion by date range. A Date is an instant counted in ticks,     *)
(* TicksPerDay of them a day; NoDate is undefined.                         *)
(***************************************************************************)
NoDate == -1
\* 'Date range cannot exceed 90 days'
MaxRangeDays == 90

\* The dates the pickers may be set to: instant 0, the instant 90 days later
\* and the one after it.
DateChoices == {0, MaxRangeDays * TicksPerDay, MaxRangeDays * TicksPerDay + 1}

\* The packages of the collection, scanned at the last instant of a day among
\* the first, at the first instant of a day after the 90th, or at the first
\* instant of the 90th day.
DeletePackage(i) ==
    [PackageDoc(i) EXCEPT !.timestamp =
        CASE i % 3 = 1 -> (i \div 3 + 1) * TicksPerDay - 1
          [] i % 3 = 2 -> (MaxRangeDays + 1 + i \div 3) * TicksPerDay
          [] OTHER -> MaxRangeDays * TicksPerDay]

\* Math.ceil((end.getTime() - start.getTime()) / (1000 * 3600 * 24))
DiffDaysFloor(start, end) == (end - start) \div TicksPerDay
DiffDays(start, end) == (end - start + TicksPerDay - 1) \div TicksPerDay

\* new Date(y, m, d): the first instant of the date's day.
StartOfDay(date) == date - (date % TicksPerDay)
\* setHours(23, 59, 59, 999): the last instant of the date's day.
EndOfDay(date) == StartOfDay(date) + TicksPerDay - 1

NoToast == [kind |-> "", message |-> "", count |-> 0]
RejectBothDates ==
    [kind |-> "plain", message |-> "Please select both start and end dates",
     count |-> 0]
RejectOrder ==
    [kind |-> "plain", message |-> "End date cannot be before start date",
     count |-> 0]
RejectSpan(variant) ==
    [kind |-> "plain",
     message |-> IF variant = "Admin" THEN "Date range cannot exceed 90 days"
                 ELSE "Date range cannot exceed 90 days for safety reasons",
     count |-> 0]
DeleteSucceeded(n) ==
    [kind |-> "success", message |-> "Successfully deleted packages", count |-> n]
DeleteFailed(variant) ==
    [kind |-> IF variant = "Admin" THEN "error" ELSE "plain",
     message |-> "Error deleting packages", count |-> 0]

\* A call of the handler: the dates it was called with, where it is, the
\* documents of packagesSnapshot and those of them still to visit, and what it
\* has done: its deletedCount, the toast it showed, the getDocs and deleteDoc
\* calls it made.
NoRun == [pc |-> "idle", startDate |-> NoDate, endDate |-> NoDate,
          snapshot |-> {}, todo |-> <<>>, deletedCount |-> 0, toast |-> NoToast,
          reads |-> 0, deletes |-> 0]
Running == {"reading", "deleting"}

\* What handleDeleteByDateRange answers before its try block: NoToast to go
\* on, or the toast of the validation that fails.
Validate(start, end, variant) ==
    IF start = NoDate \/ end = NoDate THEN RejectBothDates
    ELSE IF end < start THEN RejectOrder
    ELSE IF DiffDays(start, end) > MaxRangeDays THEN RejectSpan(variant)
    ELSE NoToast

\* The button 'Delete by Date Range', Cancel, and the dialog's onOpenChange.
SetShowDeleteModal(open) ==
    /\ showDeleteModal # open
    /\ showDeleteModal' = open
    /\ UNCHANGED <<pageVariant, startDate, endDate, isDeleting, deleteRun, clicks,
                   packages>>

\* The date pickers' setDate.
SetStartDate(date) ==
    /\ showDeleteModal /\ startDate # date
    /\ startDate' = date
    /\ UNCHANGED <<pageVariant, showDeleteModal, endDate, isDeleting, deleteRun,
                   clicks, packages>>

SetEndDate(date) ==
    /\ showDeleteModal /\ endDate # date
    /\ endDate' = date
    /\ UNCHANGED <<pageVariant, showDeleteModal, startDate, isDeleting, deleteRun,
                   clicks, packages>>

\* handleDeleteByDateRange() up to its first await: the validations, and on
\* success setIsDeleting(true) and the getDocs of the whole collection. The
\* handler is taken as callable in every state of the dialog, one call at a time.
HandleDeleteByDateRange ==
    LET verdict == Validate(startDate, endDate, pageVariant)
        run == [NoRun EXCEPT !.startDate = startDate, !.endDate = endDate] IN
    /\ deleteRun.pc \notin Running
    /\ clicks' = 1 - clicks
    /\ IF verdict # NoToast
       THEN /\ deleteRun' = [run EXCEPT !.pc = "rejected", !.toast = verdict]
            /\ UNCHANGED isDeleting
       ELSE /\ isDeleting' = TRUE
            /\ deleteRun' = [run EXCEPT !.pc = "reading", !.reads = 1]
    /\ UNCHANGED <<pageVariant, showDeleteModal, startDate, endDate, packages>>

\* getDocs resolves with the documents of the collection; the loop starts.
DeleteSnapshot ==
    /\ deleteRun.pc = "reading"
    /\ deleteRun' = [deleteRun EXCEPT !.pc = "deleting",
                        !.snapshot = packages,
                        !.todo = SortDocs(packages, "", "asc")]
    /\ UNCHANGED <<pageVariant, showDeleteModal, startDate, endDate, isDeleting,
                   clicks, packages>>

\* pkg.timestamp >= startTimestamp && pkg.timestamp <= endTimestamp
InDeleteRangeOpenEnd(pkg, run) ==
    /\ pkg.timestamp >= StartOfDay(run.startDate)
    /\ pkg.timestamp < EndOfDay(run.endDate)
InDeleteRange(pkg, run) ==
    /\ pkg.timestamp >= StartOfDay(run.startDate)
    /\ pkg.timestamp <= EndOfDay(run.endDate)

\* The documents of todo up to the first one in the range are skipped.
RECURSIVE SkipOutOfRange(_, _)
SkipOutOfRange(todo, run) ==
    IF todo = <<>> \/ InDeleteRange(Head(todo), run) THEN todo
    ELSE SkipOutOfRange(Tail(todo), run)

\* One turn of the loop that deletes: await deleteDoc(doc.ref) resolves.
DeleteOne ==
    LET todo == SkipOutOfRange(deleteRun.todo, deleteRun) IN
    /\ deleteRun.pc = "deleting"
    /\ todo # <<>>
    /\ packages' = packages \ {Head(todo)}
    /\ deleteRun' = [deleteRun EXCEPT !.todo = Tail(todo),
                                      !.deletedCount = deleteRun.deletedCount + 1,
                                      !.deletes = deleteRun.deletes + 1]
    /\ UNCHANGED <<pageVariant, showDeleteModal, startDate, endDate, isDeleting,
                   clicks>>

\* reset() of the pagination hook.
Reset ==
    /\ cursors' = <<NullCursor>>
    /\ page' = 1
    /\ data' = <<>>
    /\ hasNext' = FALSE
    /\ RunPageStart(1, <<1, <<>>, FALSE, <<NullCursor>>>>)
    /\ IF options.withTotalCount
       THEN countQuery' = TRUE /\ UNCHANGED totalCount
       ELSE countQuery' = FALSE /\ totalCount' = Undefined
    /\ hookCall' = [kind |-> "reset", target |-> 1, phase |-> "final"]
    /\ issued' = 1
    /\ UNCHANGED <<options, mounted, settled>>

\* The loop is over: the success toast, the dialog closed and its dates
\* cleared, on the Home page the table reloaded, and finally.
DeleteDone ==
    /\ deleteRun.pc = "deleting"
    /\ SkipOutOfRange(deleteRun.todo, deleteRun) = <<>>
    /\ showDeleteModal' = FALSE
    /\ startDate' = NoDate
    /\ endDate' = NoDate
    /\ isDeleting' = FALSE
    /\ deleteRun' = [deleteRun EXCEPT !.pc = "done", !.todo = <<>>,
                        !.toast = DeleteSucceeded(deleteRun.deletedCount)]
    /\ IF pageVariant = "Home" THEN Reset
       ELSE UNCHANGED <<options, data, page, hasNext, loading, error, totalCount,
                        cursors, mounted, hookCall, pageQuery, countQuery, settled,
                        issued>>
    /\ UNCHANGED <<pageVariant, clicks, packages>>

\* getDocs or a deleteDoc rejects: catch, and finally.
DeleteError ==
    /\ deleteRun.pc \in Running
    /\ deleteRun.pc = "deleting" => SkipOutOfRange(deleteRun.todo, deleteRun) # <<>>
    /\ isDeleting' = FALSE
    /\ deleteRun' = [deleteRun EXCEPT !.pc = "failed", !.todo = <<>>,
                        !.toast = DeleteFailed(pageVariant)]
    /\ UNCHANGED <<pageVariant, showDeleteModal, startDate, endDate, clicks,
                   packages>>

DelIdle ==
    /\ pageVariant = "Admin"
    /\ showDeleteModal = FALSE
    /\ startDate = NoDate /\ endDate = NoDate
    /\ isDeleting = FALSE
    /\ deleteRun = NoRun
    /\ clicks = 0

DelInit ==
    /\ pageVariant \in {"Admin", "Home"}
    /\ showDeleteModal = FALSE
    /\ startDate = NoDate /\ endDate = NoDate
    /\ isDeleting = FALSE
    /\ deleteRun = NoRun
    /\ clicks = 0

(***************************************************************************)
(* CSV export: the text handleExportCSV writes. A text is a sequence of    *)
(* characters; a fixed word of the code ('N/A', a column title) is one     *)
(* element of it.                                                          *)
(***************************************************************************)
DQ == "\""
CsvAlphabet == {"a", DQ, ",", "\n"}

RECURSIVE TextsUpTo(_)
TextsUpTo(n) ==
    IF n = 0 THEN {<<>>}
    ELSE TextsUpTo(n - 1) \cup
         {Append(t, c) : t \in {u \in TextsUpTo(n - 1) : Len(u) = n - 1},
                         c \in CsvAlphabet}

\* The non-empty texts a document's field may hold.
FieldTexts == TextsUpTo(MaxFieldLen) \ {<<>>}

\* `${item.deviceId}` of the Promise the async getDeviceLabel returns.
DeviceIdText == <<"[object Promise]">>

\* The TrackingItem of a document: data.tracking || 'Unknown', the carrier
\* name, data.timestamp || 'N/A', the device label, the coordinates' toString()
\* || 'N/A', data.username || 'N/A'.
TrackingItem(tracking, carrier, username, located) ==
    [tracking |-> IF tracking = <<>> THEN <<"Unknown">> ELSE tracking,
     carrier |-> IF carrier = <<>> THEN <<"Unknown">> ELSE carrier,
     timestamp |-> IF located THEN <<"2024-01-01T00:00:00.000Z">> ELSE <<"N/A">>,
     deviceId |-> DeviceIdText,
     latitude |-> IF located THEN <<"1.5">> ELSE <<"N/A">>,
     longitude |-> IF located THEN <<"2.5">> ELSE <<"N/A">>,
     username |-> IF username = <<>> THEN <<"N/A">> ELSE username]

ItemChoices ==
    {TrackingItem(t, c, u, l) : t \in TextsUpTo(MaxFieldLen),
                                c \in TextsUpTo(MaxFieldLen),
                                u \in TextsUpTo(MaxFieldLen), l \in BOOLEAN}

\* 'Tracking Number,Carrier,Timestamp,Device ID,Latitude,Longitude,Username\n'
CsvHeader ==
    <<"Tracking Number", ",", "Carrier", ",", "Timestamp", ",", "Device ID", ",",
      "Latitude", ",", "Longitude", ",", "Username", "\n">>

\* str.replace(/"/g, '""')
RECURSIVE EscapeQuotes(_)
EscapeQuotes(str) ==
    IF str = <<>> THEN <<>>
    ELSE (IF Head(str) = DQ THEN <<DQ, DQ>> ELSE <<Head(str)>>)
         \o EscapeQuotes(Tail(str))

\* `"${value}"`
InQuotes(value) == <<DQ>> \o value \o <<DQ>>

\* The line the forEach appends for one item.
CsvRow(item) ==
    InQuotes(item.tracking) \o <<",">> \o
    InQuotes(EscapeQuotes(item.carrier)) \o <<",">> \o
    InQuotes(item.timestamp) \o <<",">> \o
    InQuotes(item.deviceId) \o <<",">> \o
    InQuotes(item.latitude) \o <<",">> \o
    InQuotes(item.longitude) \o <<",">> \o
    InQuotes(item.username) \o <<"\n">>

RECURSIVE CsvRows(_)
CsvRows(list) ==
    IF list = <<>> THEN <<>> ELSE CsvRow(Head(list)) \o CsvRows(Tail(list))

\* csvContent after the forEach.
CsvContent(list) == CsvHeader \o CsvRows(list)

\* Lines 307-320 of handleExportCSV, on the items it has collected.
GenerateCsv ==
    /\ items # <<>> /\ csvContent = <<>>
    /\ csvContent' = CsvContent(items)
    /\ UNCHANGED items

CsvIdle == items = <<>> /\ csvContent = <<>>

CsvInit ==
    /\ \E n \in 1 .. MaxItems : items \in [1 .. n -> ItemChoices]
    /\ csvContent = <<>>

(***************************************************************************)
(* CSV export: the modal and handleExportCSV. A date of the range picker   *)
(* is a day, numbered as format(date, 'yyyyMMdd') orders the days.         *)
(***************************************************************************)
\* The days the calendars offer.
DayChoices == {0, MaxRangeDays, MaxRangeDays + 1}

NoRange == [startDate |-> NoDate, endDate |-> NoDate]

\* The documents of the packages collection: data.carrier is a string, or an
\* object with or without a name.
ExportPackage(i) ==
    [id |-> i,
     tracking |-> IF i % 2 = 1 THEN <<"a">> ELSE <<>>,
     carrier |-> CASE i % 3 = 1 -> [kind |-> "string", name |-> <<"a", DQ>>]
                   [] i % 3 = 2 -> [kind |-> "object", name |-> <<"a">>]
                   [] OTHER -> [kind |-> "object", name |-> <<>>],
     timestamp |-> i,
     dateYmd |-> IF i % 2 = 1 THEN 0 ELSE MaxRangeDays + 1,
     located |-> i % 2 = 1,
     username |-> IF i % 2 = 1 THEN <<>> ELSE <<",">>]

\* The carrier name fetchAllCarriers and handleExportCSV extract.
CarrierName(carrier) ==
    IF carrier.kind = "string" THEN carrier.name
    ELSE IF carrier.kind = "object" /\ carrier.name # <<>> THEN carrier.name
    ELSE <<"Unknown">>

\* carrierName.includes(selected)
Includes(text, part) ==
    \E k \in 0 .. Len(text) - Len(part) : SubSeq(text, k + 1, k + Len(part)) = part

AllCarriers == <<"all_carriers">>

NoExportToast == [kind |-> "", message |-> "", count |-> 0]
DateRangeRequired ==
    [kind |-> "error", message |-> "Date range is required for export", count |-> 0]
NoRecordsFound ==
    [kind |-> "error", message |-> "No tracking records found", count |-> 0]
ExportSucceeded(n) ==
    [kind |-> "success", message |-> "Successfully exported tracking records to CSV!",
     count |-> n]
ExportFailed == [kind |-> "error", message |-> "Failed to export CSV", count |-> 0]

\* A call of handleExportCSV: the range and the carrier it was called with,
\* where it is, the getDocs calls it made and the toast it showed.
NoExport == [pc |-> "idle", range |-> NoRange, carrier |-> AllCarriers,
             queries |-> 0, toast |-> NoExportToast]

\* resetForm()
ResetForm ==
    /\ dateRange' = NoRange
    /\ selectedCarrier' = AllCarriers
    /\ errors' = ""

\* handleOpenExportModal, and the effect on isOpen: fetchAllCarriers() up to
\* its getDocs, and resetForm().
OpenExportModal ==
    /\ ~isOpen
    /\ isOpen' = TRUE
    /\ carriersQuery' = TRUE
    /\ ResetForm
    /\ UNCHANGED <<availableCarriers, exportLoading, exportRun, exportClicks,
                   items, csvContent, packages>>

\* fetchAllCarriers: its getDocs resolves, or rejects.
FetchAllCarriers(ok) ==
    /\ carriersQuery
    /\ carriersQuery' = FALSE
    /\ availableCarriers' =
          IF ok THEN {CarrierName(d.carrier) : d \in packages} ELSE availableCarriers
    /\ UNCHANGED <<isOpen, dateRange, selectedCarrier, errors, exportLoading,
                   exportRun, exportClicks, items, csvContent, packages>>

\* Cancel, or handleDialogClose(false): resetForm() and onClose().
CloseExportModal ==
    /\ isOpen
    /\ isOpen' = FALSE
    /\ ResetForm
    /\ UNCHANGED <<availableCarriers, exportLoading, carriersQuery, exportRun,
                   exportClicks, items, csvContent, packages>>

\* The start calendar's onSelect: a day up to toDate, or none when the
\* selected day is clicked again.
SelectStartDate(date) ==
    /\ isOpen
    /\ date # dateRange.startDate
    /\ (date # NoDate /\ dateRange.endDate # NoDate) => date <= dateRange.endDate
    /\ dateRange' = [dateRange EXCEPT !.startDate = date]
    /\ errors' = ""
    /\ UNCHANGED <<isOpen, selectedCarrier, availableCarriers, exportLoading,
                   carriersQuery, exportRun, exportClicks, items, csvContent, packages>>

\* The end calendar's onSelect: a day from fromDate on, or none.
SelectEndDate(date) ==
    /\ isOpen
    /\ date # dateRange.endDate
    /\ (date # NoDate /\ dateRange.startDate # NoDate) => date >= dateRange.startDate
    /\ dateRange' = [dateRange EXCEPT !.endDate = date]
    /\ errors' = ""
    /\ UNCHANGED <<isOpen, selectedCarrier, availableCarriers, exportLoading,
                   carriersQuery, exportRun, exportClicks, items, csvContent, packages>>

\* handleCarrierChange(value)
HandleCarrierChange(value) ==
    /\ isOpen
    /\ value \in availableCarriers \cup {AllCarriers}
    /\ value # selectedCarrier
    /\ selectedCarrier' = value
    /\ UNCHANGED <<isOpen, dateRange, availableCarriers, errors, exportLoading,
                   carriersQuery, exportRun, exportClicks, items, csvContent, packages>>

\* handleExportCSV() up to its await of getDocs: the validation of the range,
\* then setLoading(true), setErrors({}) and the query.
HandleExportCSV ==
    LET run == [NoExport EXCEPT !.range = dateRange, !.carrier = selectedCarrier] IN
    /\ isOpen /\ ~exportLoading
    /\ exportRun.pc # "querying"
    /\ exportClicks' = 1 - exportClicks
    /\ items' = <<>>
    /\ csvContent' = <<>>
    /\ IF dateRange.startDate = NoDate \/ dateRange.endDate = NoDate
       THEN /\ errors' = "Please select both start and end dates"
            /\ exportRun' = [run EXCEPT !.pc = "rejected", !.toast = DateRangeRequired]
            /\ UNCHANGED exportLoading
       ELSE /\ exportLoading' = TRUE
            /\ errors' = ""
            /\ exportRun' = [run EXCEPT !.pc = "querying", !.queries = 1]
    /\ UNCHANGED <<isOpen, dateRange, selectedCarrier, availableCarriers,
                   carriersQuery, packages>>

\* The query without its upper bound on dateYmd.
ExportQueryFromStart(range) ==
    SortDocs({d \in packages : d.dateYmd >= range.startDate}, "timestamp", "desc")

\* where('dateYmd', '>=', startDateStr), where('dateYmd', '<=', endDateStr),
\* orderBy('timestamp', 'desc'): the documents getDocs resolves with.
ExportQuery(range) ==
    SortDocs({d \in packages : /\ d.dateYmd >= range.startDate
                               /\ d.dateYmd <= range.endDate},
             "timestamp", "desc")

\* The items of the documents of docs that pass the carrier filter.
RECURSIVE ExportItems(_, _)
ExportItems(docs, carrier) ==
    IF docs = <<>> THEN <<>>
    ELSE LET d == Head(docs)
             name == CarrierName(d.carrier) IN
         (IF carrier # AllCarriers /\ ~Includes(name, carrier) THEN <<>>
          ELSE <<TrackingItem(d.tracking, name, d.username, d.located)>>)
         \o ExportItems(Tail(docs), carrier)

\* getDocs resolves: the items; none: the toast; else the CSV text, the
\* download, the success toast and onClose(); finally setLoading(false).
ExportQueryOk ==
    LET list == ExportItems(ExportQuery(exportRun.range), exportRun.carrier) IN
    /\ exportRun.pc = "querying"
    /\ items' = list
    /\ exportLoading' = FALSE
    /\ IF list = <<>>
       THEN /\ exportRun' = [exportRun EXCEPT !.pc = "empty", !.toast = NoRecordsFound]
            /\ UNCHANGED <<csvContent, isOpen>>
       ELSE /\ csvContent' = CsvContent(list)
            /\ exportRun' = [exportRun EXCEPT !.pc = "done",
                                !.toast = ExportSucceeded(Len(list))]
            /\ isOpen' = FALSE
    /\ UNCHANGED <<dateRange, selectedCarrier, availableCarriers, errors,
                   carriersQuery, exportClicks, packages>>

\* getDocs rejects: catch, and finally.
ExportQueryFail ==
    /\ exportRun.pc = "querying"
    /\ exportLoading' = FALSE
    /\ exportRun' = [exportRun EXCEPT !.pc = "failed", !.toast = ExportFailed]
    /\ UNCHANGED <<isOpen, dateRange, selectedCarrier, availableCarriers, errors,
                   carriersQuery, exportClicks, items, csvContent, packages>>

ExpIdle ==
    /\ isOpen = FALSE
    /\ dateRange = NoRange
    /\ selectedCarrier = AllCarriers
    /\ availableCarriers = {}
    /\ errors = ""
    /\ exportLoading = FALSE
    /\ carriersQuery = FALSE
    /\ exportRun = NoExport
    /\ exportClicks = 0

(***************************************************************************)
(* Carrier names: the normalization of getCarrierBreakdown and the one of  *)
(* loadTimeChartData. The words the code looks for are single elements of  *)
(* a text.                                                                 *)
(***************************************************************************)
SQ == "'"
CarrierAlphabet == {DQ, SQ, "x", "UPS", "FedEx", "Express", "Ground"}

RECURSIVE CarrierTexts(_)
CarrierTexts(n) ==
    IF n = 0 THEN {<<>>}
    ELSE CarrierTexts(n - 1) \cup
         {Append(t, c) : t \in {u \in CarrierTexts(n - 1) : Len(u) = n - 1},
                         c \in CarrierAlphabet}

\* The text of a JSON object with the one member "name".
JsonOfName(name) ==
    <<"{", "\"name\":", DQ>> \o
    [k \in 1 .. Len(name) |-> IF name[k] = DQ THEN "\\\"" ELSE name[k]] \o
    <<DQ, "}">>

\* JSON.parse(text): the parsed object, or ok FALSE when it throws.
JsonParse(text) ==
    LET n == Len(text) IN
    IF /\ n >= 5
       /\ SubSeq(text, 1, 3) = <<"{", "\"name\":", DQ>>
       /\ SubSeq(text, n - 1, n) = <<DQ, "}">>
       /\ \A k \in 4 .. n - 2 : text[k] # DQ
    THEN [ok |-> TRUE, hasName |-> TRUE,
          name |-> [k \in 1 .. n - 5 |->
                      IF text[k + 3] = "\\\"" THEN DQ ELSE text[k + 3]]]
    ELSE IF text = <<"{", "}">>
    THEN [ok |-> TRUE, hasName |-> FALSE, name |-> <<>>]
    ELSE [ok |-> FALSE, hasName |-> FALSE, name |-> <<>>]

\* The carrier values of the scans: strings, quoted or not, JSON texts, and
\* objects with or without a name.
CarrierValues ==
    LET texts == CarrierTexts(MaxCarrierLen) IN
    {[kind |-> "string", text |-> t] : t \in texts \ {<<>>}} \cup
    {[kind |-> "string", text |-> JsonOfName(t)] : t \in texts} \cup
    {[kind |-> "string", text |-> <<"{", "}">>],
     [kind |-> "string", text |-> <<"{", "x", "}">>]} \cup
    {[kind |-> "object", text |-> t] : t \in texts}

\* carrier.replace(/^["'](.+)["']$/, '$1')
StripQuotes(str) ==
    IF Len(str) >= 3 /\ str[1] \in {DQ, SQ} /\ str[Len(str)] \in {DQ, SQ}
    THEN SubSeq(str, 2, Len(str) - 1)
    ELSE str

\* carrier.includes(word)
Has(carrier, word) == \E k \in 1 .. Len(carrier) : carrier[k] = word

\* The names both functions map to 'FedEx Express', 'FedEx Ground' and 'UPS'.
Standardize(carrier) ==
    IF Has(carrier, "FedEx") /\ Has(carrier, "Express") THEN <<"FedEx", "Express">>
    ELSE IF Has(carrier, "FedEx") /\ Has(carrier, "Ground") THEN <<"FedEx", "Ground">>
    ELSE IF Has(carrier, "UPS") THEN <<"UPS">>
    ELSE carrier

\* getCarrierBreakdown: the key a scan's carrier is counted under.
BreakdownCarrier(c) ==
    LET parsed == JsonParse(c.text)
        name ==
          IF c.kind = "string"
          THEN IF Len(c.text) >= 2 /\ Head(c.text) = "{" /\ c.text[Len(c.text)] = "}"
                  /\ parsed.ok /\ parsed.hasName
               THEN parsed.name
               ELSE StripQuotes(c.text)
          ELSE IF c.text # <<>> THEN c.text ELSE <<"Unknown Carrier">> IN
    Standardize(name)

\* loadTimeChartData: the key a scan's carrier is counted under.
ChartCarrier(c) ==
    Standardize(IF c.kind = "string" THEN c.text
                ELSE IF c.text # <<>> THEN c.text ELSE <<"Unknown">>)

\* The name by the normalization chosen.
NormalizeCarrier(c) ==
    IF normalizer = "breakdown" THEN BreakdownCarrier(c) ELSE ChartCarrier(c)

\* A scan is counted: its carrier is normalized.
CountScan ==
    /\ normalized = <<>>
    /\ normalized' = <<NormalizeCarrier(carrierValue)>>
    /\ UNCHANGED <<normalizer, carrierValue>>

\* A scan whose carrier is a name already normalized is counted.
CountScanAgain ==
    /\ Len(normalized) = 1 /\ normalized[1] # <<>>
    /\ normalized' =
          Append(normalized, NormalizeCarrier([kind |-> "string", text |-> normalized[1]]))
    /\ UNCHANGED <<normalizer, carrierValue>>

CarIdle ==
    /\ normalizer = "breakdown"
    /\ carrierValue = [kind |-> "string", text |-> <<"x">>]
    /\ normalized = <<>>

CarInit ==
    /\ normalizer \in {"breakdown", "chart"}
    /\ carrierValue \in CarrierValues
    /\ normalized = <<>>

(***************************************************************************)
(* Session and routes.                                                     *)
(***************************************************************************)
Paths == {"/login", "/", "/admin"}

\* What a route element renders: a page, 'Loading...', or a Navigate with its
\* target and the pathname of the location it keeps in state.from.
Element(name) == [element |-> name, to |-> "", from |-> ""]
NavigateTo(to, from) == [element |-> "Navigate", to |-> to, from |-> from]

\* location.state?.from?.pathname || '/'
From(loc) == IF loc.from # "" THEN loc.from ELSE "/"

\* ProtectedRoute around MainLayout with Home or Admin.
ProtectedRouteOpen(loc, load, auth) ==
    IF load THEN Element("Loading")
    ELSE Element(IF loc.pathname = "/" THEN "Home" ELSE "Admin")
ProtectedRoute(loc, load, auth) ==
    IF load THEN Element("Loading")
    ELSE IF ~auth THEN NavigateTo("/login", loc.pathname)
    ELSE Element(IF loc.pathname = "/" THEN "Home" ELSE "Admin")

\* PublicRoute restricted around Login.
PublicRoute(loc, load, auth) ==
    IF load THEN Element("Loading")
    ELSE IF auth THEN NavigateTo(From(loc), "")
    ELSE Element("Login")

\* The element of the route that matches the location.
RouteElement(loc, load, auth) ==
    IF loc.pathname = "/login" THEN PublicRoute(loc, load, auth)
    ELSE ProtectedRoute(loc, load, auth)

\* The state of a Login that has just mounted.
NewForm == [email |-> "", password |-> "", error |-> "", isRegister |-> FALSE]

\* A call of handleSubmit: where it is, the from of its render, whether the
\* Login it belongs to is still mounted, and what signing in answered.
NoSubmit == [pc |-> "idle", from |-> "", mounted |-> FALSE, code |-> ""]

\* The codes signInWithEmailAndPassword and createUserWithEmailAndPassword
\* reject with; "message" is an error with a message and no known code,
\* "none" one with neither.
AuthErrors == {"auth/wrong-password", "auth/network-request-failed", "message", "none"}

\* getFirebaseErrorMessage(error)
GetFirebaseErrorMessage(code) ==
    CASE code = "auth/wrong-password" -> "Incorrect password."
      [] code = "auth/network-request-failed" ->
            "Network error. Please check your connection."
      [] code = "message" -> "error.message"
      [] OTHER -> "An unknown error occurred."

\* The render that follows a step: the route's element for the new location
\* and session; a Login that was not on screen before mounts with a new
\* state, and one that leaves the screen unmounts.
Show(loc, load, auth, form, sub) ==
    LET next == RouteElement(loc, load, auth)
        stays == next.element = "Login" /\ screen.element = "Login" IN
    /\ location' = loc
    /\ authLoading' = load
    /\ isAuthenticated' = auth
    /\ screen' = next
    /\ loginForm' = IF stays THEN form ELSE NewForm
    /\ submit' = [sub EXCEPT !.mounted = sub.mounted /\ stays]

\* A link or the address bar leads to another route.
Browse(path) ==
    /\ path # location.pathname
    /\ Show([pathname |-> path, from |-> ""], authLoading, isAuthenticated,
            loginForm, submit)
    /\ UNCHANGED <<firebaseUser, authEvents, tokenWaits>>

\* <Navigate to=... state=... replace /> takes effect.
Redirect ==
    /\ screen.element = "Navigate"
    /\ Show([pathname |-> screen.to, from |-> screen.from], authLoading,
            isAuthenticated, loginForm, submit)
    /\ UNCHANGED <<firebaseUser, authEvents, tokenWaits>>

\* onChange of the email and password inputs.
SetEmail(value) ==
    /\ screen.element = "Login" /\ loginForm.email # value
    /\ Show(location, authLoading, isAuthenticated,
            [loginForm EXCEPT !.email = value], submit)
    /\ UNCHANGED <<firebaseUser, authEvents, tokenWaits>>

SetPassword(value) ==
    /\ screen.element = "Login" /\ loginForm.password # value
    /\ Show(location, authLoading, isAuthenticated,
            [loginForm EXCEPT !.password = value], submit)
    /\ UNCHANGED <<firebaseUser, authEvents, tokenWaits>>

\* handleSubmit up to its await: setError(''), the check of the fields, then
\* login() or register() up to their await: setLoading(true).
HandleSubmit ==
    /\ screen.element = "Login"
    /\ submit.pc # "awaiting"
    /\ IF loginForm.email = "" \/ loginForm.password = ""
       THEN Show(location, authLoading, isAuthenticated,
                 [loginForm EXCEPT !.error = "Please provide both email and password"],
                 [NoSubmit EXCEPT !.pc = "invalid", !.mounted = TRUE])
       ELSE Show(location, TRUE, isAuthenticated,
                 [loginForm EXCEPT !.error = ""],
                 [NoSubmit EXCEPT !.pc = "awaiting", !.from = From(location),
                                  !.mounted = TRUE])
    /\ UNCHANGED <<firebaseUser, authEvents, tokenWaits>>

\* Signing in or registering resolves: finally setLoading(false), then
\* handleSubmit goes on with navigate(from, { replace: true }).
SignInOk ==
    /\ submit.pc = "awaiting"
    /\ Len(authEvents) < MaxAuthEvents
    /\ firebaseUser' = TRUE
    /\ authEvents' = Append(authEvents, "user")
    /\ Show([pathname |-> submit.from, from |-> ""], FALSE, isAuthenticated,
            loginForm, [submit EXCEPT !.pc = "done"])
    /\ UNCHANGED tokenWaits

\* setError of a Login that is mounted; the one of an unmounted Login is lost.
SetError(form, sub, message) ==
    IF sub.mounted THEN [form EXCEPT !.error = message] ELSE form

\* Signing in or registering rejects: finally setLoading(false), then the
\* catch of handleSubmit: setError(getFirebaseErrorMessage(error)).
SignInFail(code) ==
    /\ submit.pc = "awaiting"
    /\ Show(location, FALSE, isAuthenticated,
            SetError(loginForm, submit, GetFirebaseErrorMessage(code)),
            [submit EXCEPT !.pc = "rejected", !.code = code])
    /\ UNCHANGED <<firebaseUser, authEvents, tokenWaits>>

\* logout(), or the session ends elsewhere: signOut resolves.
SignOut ==
    /\ firebaseUser
    /\ Len(authEvents) < MaxAuthEvents
    /\ firebaseUser' = FALSE
    /\ authEvents' = Append(authEvents, "none")
    /\ UNCHANGED <<tokenWaits, isAuthenticated, authLoading, location, screen,
                   loginForm, submit>>

\* The callback of onAuthStateChanged runs: with a user it awaits
\* getIdToken(); with none it sets the signed-out state and setLoading(false).
AuthStateChanged ==
    /\ authEvents # <<>>
    /\ Head(authEvents) = "user" => tokenWaits < MaxAuthEvents
    /\ authEvents' = Tail(authEvents)
    /\ IF Head(authEvents) = "user"
       THEN /\ tokenWaits' = tokenWaits + 1
            /\ UNCHANGED <<isAuthenticated, authLoading, location, screen,
                           loginForm, submit>>
       ELSE /\ Show(location, FALSE, FALSE, loginForm, submit)
            /\ UNCHANGED tokenWaits
    /\ UNCHANGED firebaseUser

\* getIdToken() resolves: the signed-in state and setLoading(false).
TokenResolved ==
    /\ tokenWaits > 0
    /\ tokenWaits' = tokenWaits - 1
    /\ Show(location, FALSE, TRUE, loginForm, submit)
    /\ UNCHANGED <<firebaseUser, authEvents>>

AuthIdle ==
    /\ firebaseUser = FALSE
    /\ authEvents = <<>>
    /\ tokenWaits = 0
    /\ isAuthenticated = FALSE
    /\ authLoading = TRUE
    /\ location = [pathname |-> "/", from |-> ""]
    /\ screen = Element("Loading")
    /\ loginForm = NewForm
    /\ submit = NoSubmit

\* The app starts at some route, with or without a session kept by the
\* browser; onAuthStateChanged will report it.
AuthInit ==
    /\ firebaseUser \in BOOLEAN
    /\ authEvents = <<IF firebaseUser THEN "user" ELSE "none">>
    /\ tokenWaits = 0
    /\ isAuthenticated = FALSE
    /\ authLoading = TRUE
    /\ \E path \in Paths : location = [pathname |-> path, from |-> ""]
    /\ screen = RouteElement(location, authLoading, isAuthenticated)
    /\ loginForm = NewForm
    /\ submit = NoSubmit

\* The hook's part of a state in which only the collection is of interest.
HookIdleWith(docs) ==
    /\ packages = docs
    /\ options = [pageSize |-> 50, orderByField |-> "timestamp", direction |-> "desc",
                  withTotalCount |-> TRUE, filters |-> <<>>]
    /\ data = <<>>
    /\ page = 1
    /\ hasNext = FALSE
    /\ loading = FALSE
    /\ error = NoError
    /\ totalCount = Undefined
    /\ cursors = <<NullCursor>>
    /\ mounted = FALSE
    /\ hookCall = NoCall
    /\ pageQuery = NoQuery
    /\ countQuery = FALSE
    /\ settled = NotSettled
    /\ issued = 0

HookIdle == HookIdleWith({})

DevInit ==
    /\ devices = [d \in DeviceIds |-> NoDevice]
    /\ deviceLabelCache = [d \in DeviceIds |-> 0]
    /\ calls = [p \in Procs |-> IdleCall]
    /\ clock = 0
    /\ created = [d \in DeviceIds |-> 0]
    /\ firstLabel = [d \in DeviceIds |-> 0]

(***************************************************************************)
(* The search box of TrackingTable (components/TrackingTable.tsx).         *)
(* Search texts are sequences of characters; time is counted in ms.        *)
(***************************************************************************)
DebounceMs == 500      \* the delay handleInputChange gives setTimeout
TickMs == 250          \* the step by which the model lets time pass
MaxSearchLen == 3      \* search texts have at most this many characters
MaxTimers == 2         \* at most this many callbacks are pending at once
MaxTablePage == 2      \* handlePageChange is given pages 1..MaxTablePage

SearchAlphabet == {"a", " "}
SearchTexts == UNION {[1 .. n -> SearchAlphabet] : n \in 0 .. MaxSearchLen}

\* String.prototype.trim
RECURSIVE TrimStart(_)
TrimStart(text) ==
    IF text # <<>> /\ Head(text) = " " THEN TrimStart(Tail(text)) ELSE text
RECURSIVE TrimEnd(_)
TrimEnd(text) ==
    IF text # <<>> /\ text[Len(text)] = " "
    THEN TrimEnd(SubSeq(text, 1, Len(text) - 1))
    ELSE text
Trim(text) == TrimEnd(TrimStart(text))

\* The condition of the callback handleInputChange hands to setTimeout;
\* query is the searchQuery of the render the handler belongs to.
StartsSearch(value, query) ==
    value # query /\ (Trim(value) = <<>> \/ Len(Trim(value)) >= 3)

\* effectiveSearchQuery of the fetch effect
EffectiveSearchQuery(query) ==
    IF query # <<>> /\ Len(Trim(query)) > 0 /\ Len(Trim(query)) < 3
    THEN <<>>
    ELSE query

\* The fetch effect after a render with search text q and page p: it runs
\* when one of its dependencies changed, and calls fetchPagedData.
FetchData(q, p) ==
    tableQuery' = IF <<q, p>> # <<searchQuery, currentPage>>
                  THEN [search |-> EffectiveSearchQuery(q), page |-> p]
                  ELSE tableQuery

\* The effect that copies searchQuery into the input when searchQuery changed;
\* typed is the input's text otherwise.
SyncInput(q, typed) == inputValue' = IF q # searchQuery THEN q ELSE typed

ClearTimeoutNot(pending, id) == pending
ClearTimeout(pending, id) == {t \in pending : t.id # id}

FreeTimerIds(pending) == (1 .. MaxTimers) \ {t.id : t \in pending}

\* onChange of the input with e.target.value = value
HandleInputChange(value) ==
    LET kept == ClearTimeout(timers, searchTimeoutRef) IN
    /\ value # inputValue
    /\ FreeTimerIds(kept) # {}
    /\ LET id == CHOOSE i \in FreeTimerIds(kept) :
                    \A j \in FreeTimerIds(kept) : i <= j
       IN /\ timers' = kept \cup {[id |-> id, value |-> value,
                                   searchQuery |-> searchQuery, elapsed |-> 0]}
          /\ searchTimeoutRef' = id
    /\ inputValue' = value
    /\ keystroke' = [value |-> value, age |-> 0]
    /\ UNCHANGED <<searchQuery, currentPage, refreshing, tableQuery>>

\* TickMs pass.
Elapse ==
    /\ keystroke.age < DebounceMs \/ \E t \in timers : t.elapsed < DebounceMs
    /\ timers' = {[t EXCEPT !.elapsed = IF @ + TickMs > DebounceMs
                                        THEN DebounceMs ELSE @ + TickMs]
                    : t \in timers}
    /\ keystroke' = [keystroke EXCEPT !.age = IF @ + TickMs > DebounceMs
                                              THEN DebounceMs ELSE @ + TickMs]
    /\ UNCHANGED <<inputValue, searchQuery, currentPage, searchTimeoutRef,
                   refreshing, tableQuery>>

\* The callback of a timer whose delay has passed.
SearchTimeout(t) ==
    /\ t \in timers
    /\ t.elapsed >= DebounceMs
    /\ timers' = timers \ {t}
    /\ IF StartsSearch(t.value, t.searchQuery)
       THEN /\ searchQuery' = t.value
            /\ currentPage' = 1
            /\ SyncInput(t.value, inputValue)
            /\ FetchData(t.value, 1)
       ELSE UNCHANGED <<searchQuery, currentPage, inputValue, tableQuery>>
    /\ UNCHANGED <<searchTimeoutRef, keystroke, refreshing>>

\* onClick of the button that clears the search, shown while the input holds
\* text.
ClearSearch ==
    /\ inputValue # <<>>
    /\ searchQuery' = <<>>
    /\ currentPage' = 1
    /\ inputValue' = <<>>
    /\ FetchData(<<>>, 1)
    /\ UNCHANGED <<searchTimeoutRef, timers, keystroke, refreshing>>

HandlePageChange(p) ==
    /\ p # currentPage
    /\ currentPage' = p
    /\ FetchData(searchQuery, p)
    /\ UNCHANGED <<inputValue, searchQuery, searchTimeoutRef, timers, keystroke,
                   refreshing>>

\* handleRefresh up to its await of fetchAllCarriers.
HandleRefresh ==
    /\ ~refreshing
    /\ refreshing' = TRUE
    /\ currentPage' = 1
    /\ FetchData(searchQuery, 1)
    /\ UNCHANGED <<inputValue, searchQuery, searchTimeoutRef, timers, keystroke>>

\* handleRefresh after fetchAllCarriers: the callback is memoized on the fetch
\* functions alone, so the searchQuery it reads is that of the first render.
RefreshFetch ==
    /\ refreshing
    /\ refreshing' = FALSE
    /\ tableQuery' = [search |-> <<>>, page |-> 1]
    /\ UNCHANGED <<inputValue, searchQuery, currentPage, searchTimeoutRef, timers,
                   keystroke>>

\* The table once mounted: the fetch effect has asked for page 1.
TblIdle ==
    /\ inputValue = <<>>
    /\ searchQuery = <<>>
    /\ currentPage = 1
    /\ searchTimeoutRef = 0
    /\ timers = {}
    /\ keystroke = [value |-> <<>>, age |-> DebounceMs]
    /\ refreshing = FALSE
    /\ tableQuery = [search |-> EffectiveSearchQuery(<<>>), page |-> 1]

(***************************************************************************)
(* The rows of TrackingTable: fetchPagedData and fetchTotalCount, run by   *)
(* the fetch effect. Texts are sequences of code units. A handler is       *)
(* called when the fetch of the one before it has finished.                *)
(***************************************************************************)
MaxRowDocs == 3       \* the collection holds this many packages
RowsPerPage == 1      \* paginationState.itemsPerPage
\* The code units of ' ', 'A', 'Z', 'a', 'b' and '0'.
Unit == [space |-> 32, upperA |-> 65, upperZ |-> 90, lowerA |-> 97,
         lowerB |-> 98, digit0 |-> 48]

\* A package: two of three tracking numbers begin with "aab", the third with
\* "abb"; odd ids are carried by UPS, even ids by FedEx.
RowDoc(i) ==
    [id |-> i,
     tracking |-> IF i % 3 = 0 THEN <<Unit.lowerA, Unit.lowerB, Unit.lowerB, Unit.digit0 + i>>
                  ELSE <<Unit.lowerA, Unit.lowerA, Unit.lowerB, Unit.digit0 + i>>,
     carrier |-> IF i % 2 = 1 THEN "UPS" ELSE "FedEx",
     timestamp |-> i]

\* The search texts the debounced input lets through, and the carriers of the
\* dropdown ("" is 'All Carriers').
RowSearches == {<<>>, <<Unit.lowerA, Unit.lowerA, Unit.lowerB>>, <<Unit.space, Unit.lowerA, Unit.lowerA, Unit.lowerB>>}
RowCarriers == {"", "UPS", "FedEx"}

\* String.prototype.trim and toLowerCase on code units
RECURSIVE TrimUnitsStart(_)
TrimUnitsStart(text) ==
    IF text # <<>> /\ Head(text) = Unit.space THEN TrimUnitsStart(Tail(text)) ELSE text
RECURSIVE TrimUnitsEnd(_)
TrimUnitsEnd(text) ==
    IF text # <<>> /\ text[Len(text)] = Unit.space
    THEN TrimUnitsEnd(SubSeq(text, 1, Len(text) - 1))
    ELSE text
TrimUnits(text) == TrimUnitsEnd(TrimUnitsStart(text))
ToLowerCase(text) ==
    [i \in 1 .. Len(text) |->
        IF text[i] >= Unit.upperA /\ text[i] <= Unit.upperZ THEN text[i] + (Unit.lowerA - Unit.upperA)
        ELSE text[i]]

\* searchText && searchText.trim() !== '' && searchText.trim().length >= 3
Searching(searchText) ==
    searchText # <<>> /\ TrimUnits(searchText) # <<>> /\ Len(TrimUnits(searchText)) >= 3

\* effectiveSearchQuery of the fetch effect, on code units
EffectiveSearch(query) ==
    IF query # <<>> /\ Len(TrimUnits(query)) > 0 /\ Len(TrimUnits(query)) < 3
    THEN <<>>
    ELSE query

\* orderBy('tracking'), startAt(s), endAt(s + '')
InPrefixRange(d, s) ==
    ~StrLess(d.tracking, s) /\ ~StrLess(s \o <<MaxUnicodeChar>>, d.tracking)

NoDoc == [id |-> 0, tracking |-> <<>>, carrier |-> "", timestamp |-> 0]
NoFetch ==
    [pc |-> "idle", cause |-> "", page |-> 0, pageSize |-> 0, sortBy |-> "",
     sortDir |-> "", carrier |-> "", search |-> <<>>, after |-> NoDoc]

\* The documents of the query fetchPagedData builds, in its order.
PagedDocs(f) ==
    LET s == ToLowerCase(TrimUnits(f.search))
        field == IF Searching(f.search) THEN "tracking" ELSE f.sortBy
        dir == IF Searching(f.search) THEN "asc" ELSE f.sortDir
        all == IF Searching(f.search) THEN {d \in packages : InPrefixRange(d, s)}
               ELSE IF f.carrier # "" THEN {d \in packages : d.carrier = f.carrier}
               ELSE packages
        rest == IF f.page > 1 /\ f.after # NoDoc
                THEN {d \in all : Before(field, dir, f.after, d)}
                ELSE all
        sorted == SortDocs(rest, field, dir)
    IN SubSeq(sorted, 1, Min(f.pageSize, Len(sorted)))

\* The filter of the combined case: docs.filter(doc => ... return carrierName)
RECURSIVE WithCarrierName(_)
WithCarrierName(docs) ==
    IF docs = <<>> THEN <<>>
    ELSE (IF Head(docs).carrier # "" THEN <<Head(docs)>> ELSE <<>>)
         \o WithCarrierName(Tail(docs))

\* The documents fetchPagedData makes rows of.
PagedItems(f) ==
    IF Searching(f.search) /\ f.carrier # ""
    THEN WithCarrierName(PagedDocs(f))
    ELSE PagedDocs(f)

\* The documents the query of fetchTotalCount returns.
CountedDocs(f) ==
    LET s == ToLowerCase(TrimUnits(f.search)) IN
    IF Searching(f.search)
    THEN IF f.carrier # ""
         THEN {d \in packages : d.carrier = f.carrier /\ InPrefixRange(d, s)}
         ELSE {d \in packages : InPrefixRange(d, s)}
    ELSE IF f.carrier # "" THEN {d \in packages : d.carrier = f.carrier}
    ELSE packages

\* totalPages: Math.ceil(totalItems / itemsPerPage) || 1
TotalPages ==
    LET n == (paginationState.totalItems + paginationState.itemsPerPage - 1)
                \div paginationState.itemsPerPage
    IN IF n = 0 THEN 1 ELSE n

\* The fetch effect once a handler changed one of its dependencies: it calls
\* fetchPagedData with the state of the new render, and the cursor
\* paginationState.lastVisible when the page is not the first.
FetchDataOf(cause, fs, ps) ==
    rowsFetch' =
        [pc |-> "page", cause |-> cause, page |-> ps.currentPage,
         pageSize |-> ps.itemsPerPage, sortBy |-> fs.sortField,
         sortDir |-> fs.sortDirection, carrier |-> fs.selectedCarrier,
         search |-> EffectiveSearch(fs.searchQuery),
         after |-> IF ps.currentPage > 1 THEN ps.lastVisible ELSE NoDoc]

\* handlePageChange(n), from Previous, Next or a numbered button
TablePageChange(n) ==
    /\ rowsFetch.pc = "idle"
    /\ n \in 1 .. TotalPages
    /\ n # paginationState.currentPage
    /\ n \in {1, TotalPages, paginationState.currentPage - 1,
              paginationState.currentPage + 1}
    /\ paginationState' = [paginationState EXCEPT !.currentPage = n]
    /\ FetchDataOf("page", filterState, paginationState')
    /\ UNCHANGED <<filterState, trackingItems, tableError>>

\* handleCarrierChange(carrier) of TrackingTable
TableCarrierChange(carrier) ==
    /\ rowsFetch.pc = "idle"
    /\ carrier # filterState.selectedCarrier
    /\ filterState' = [filterState EXCEPT !.selectedCarrier = carrier]
    /\ paginationState' = [paginationState EXCEPT !.currentPage = 1,
                                                  !.lastVisible = NoDoc]
    /\ FetchDataOf("carrier", filterState', paginationState')
    /\ UNCHANGED <<trackingItems, tableError>>

\* setSearchQuery(value) and the reset of the page, by the callback of the
\* search timer or by the button that clears the search.
SetSearchQuery(value) ==
    /\ rowsFetch.pc = "idle"
    /\ value # filterState.searchQuery
    /\ filterState' = [filterState EXCEPT !.searchQuery = value]
    /\ paginationState' = [paginationState EXCEPT !.currentPage = 1,
                                                  !.lastVisible = NoDoc]
    /\ FetchDataOf("search", filterState', paginationState')
    /\ UNCHANGED <<trackingItems, tableError>>

\* getDocs of fetchPagedData resolves: the rest of its try block; the effect
\* goes on to fetchTotalCount.
FetchPagedOk ==
    /\ rowsFetch.pc = "page"
    /\ LET rows == PagedItems(rowsFetch) IN
       /\ trackingItems' = rows
       /\ paginationState' =
             [paginationState EXCEPT
                 !.currentPage = rowsFetch.page,
                 !.itemsPerPage = rowsFetch.pageSize,
                 !.lastVisible = IF rows # <<>> THEN rows[Len(rows)] ELSE NoDoc]
    /\ tableError' = FALSE
    /\ rowsFetch' = [rowsFetch EXCEPT !.pc = "count"]
    /\ UNCHANGED filterState

\* getDocs of fetchPagedData rejects.
FetchPagedFail ==
    /\ rowsFetch.pc = "page"
    /\ tableError' = TRUE
    /\ rowsFetch' = [rowsFetch EXCEPT !.pc = "count"]
    /\ UNCHANGED <<filterState, paginationState, trackingItems>>

\* getDocs of fetchTotalCount resolves.
FetchTotalOk ==
    /\ rowsFetch.pc = "count"
    /\ paginationState' =
          [paginationState EXCEPT !.totalItems = Cardinality(CountedDocs(rowsFetch))]
    /\ rowsFetch' = [rowsFetch EXCEPT !.pc = "idle"]
    /\ UNCHANGED <<filterState, trackingItems, tableError>>

RowsIdle ==
    /\ filterState = [searchQuery |-> <<>>, selectedCarrier |-> "",
                      sortField |-> "timestamp", sortDirection |-> "desc"]
    /\ paginationState = [currentPage |-> 1, itemsPerPage |-> RowsPerPage,
                          totalItems |-> 0, lastVisible |-> NoDoc]
    /\ trackingItems = <<>>
    /\ tableError = FALSE
    /\ rowsFetch = NoFetch

\* The table as mounted: the fetch effect has called fetchPagedData for
\* page 1.
RowsInit ==
    /\ filterState = [searchQuery |-> <<>>, selectedCarrier |-> "",
                      sortField |-> "timestamp", sortDirection |-> "desc"]
    /\ paginationState = [currentPage |-> 1, itemsPerPage |-> RowsPerPage,
                          totalItems |-> 0, lastVisible |-> NoDoc]
    /\ trackingItems = <<>>
    /\ tableError = FALSE
    /\ rowsFetch = [NoFetch EXCEPT !.pc = "page", !.cause = "mount", !.page = 1,
                                   !.pageSize = RowsPerPage,
                                   !.sortBy = "timestamp", !.sortDir = "desc"]

(***************************************************************************)
(* The KPI row: KpiSummaryRow (components/ChartsSection.tsx) and           *)
(* fetchKpiData. A dateYmd is kept as its yyyyMM part and its dd part.     *)
(***************************************************************************)
\* format(today, 'yyyyMM') and the day of format(today, 'yyyyMMdd').
Today == [month |-> "202401", day |-> "15"]

\* The scans that are added to the collection: of today, of an earlier day of
\* this month, and of last month.
KpiScan(i) ==
    [id |-> i,
     dateYmd |-> CASE i % 3 = 1 -> Today
                   [] i % 3 = 2 -> [Today EXCEPT !.day = "14"]
                   [] OTHER -> [month |-> "202312", day |-> "15"],
     carrier |-> [kind |-> "string",
                  text |-> IF i % 2 = 1 THEN <<"UPS">> ELSE <<"FedEx", "Ground">>],
     timestamp |-> i]

\* useState's initial kpiData.
InitialKpiData ==
    [totalScansToday |-> 0, totalScansThisMonth |-> 0, averageDailyScans |-> 0,
     lastSyncTime |-> [of |-> "", at |-> 0],
     todayCarrierBreakdown |-> <<>>, monthCarrierBreakdown |-> <<>>]

\* What fetchKpiData returns from its catch; the time is that of the call.
DefaultKpiData ==
    [totalScansToday |-> 0, totalScansThisMonth |-> 0, activeCarriers |-> 0,
     averageDailyScans |-> 0, lastSyncTime |-> [of |-> "now", at |-> 0],
     todayCarrierBreakdown |-> <<>>, monthCarrierBreakdown |-> <<>>]

\* getCarrierBreakdown(scans): the number of scans under each carrier key.
GetCarrierBreakdown(scans) ==
    [key \in {BreakdownCarrier(s.carrier) : s \in scans} |->
        Cardinality({s \in scans : BreakdownCarrier(s.carrier) = key})]

\* Math.round(a / b) of a count a and a positive b.
Round(a, b) == (2 * a + b) \div (2 * b)

\* fetchKpiData after its getDocs resolved with the documents allScans.
KpiOf(allScans) ==
    LET todayScans == {s \in allScans : s.dateYmd = Today}
        monthScans == {s \in allScans : s.dateYmd.month = Today.month}
        uniqueScanDays == {s.dateYmd : s \in monthScans}
        daysWithScans ==
          IF uniqueScanDays = {} THEN 1 ELSE Cardinality(uniqueScanDays)
        newest == CHOOSE s \in allScans :
                    \A t \in allScans : t.timestamp <= s.timestamp IN
    [totalScansToday |-> Cardinality(todayScans),
     totalScansThisMonth |-> Cardinality(monthScans),
     activeCarriers |-> Cardinality(DOMAIN GetCarrierBreakdown(monthScans)),
     averageDailyScans |-> Round(Cardinality(monthScans), daysWithScans),
     lastSyncTime |-> IF allScans = {} THEN [of |-> "now", at |-> 0]
                      ELSE [of |-> "scan", at |-> newest.timestamp],
     todayCarrierBreakdown |-> GetCarrierBreakdown(todayScans),
     monthCarrierBreakdown |-> GetCarrierBreakdown(monthScans)]

\* A fetchKpiData call that has not been made.
NoKpiFetch == [phase |-> "idle", docs |-> {}]

KpiFetchIds == 1 .. MaxKpiFetches

\* The calls made so far.
KpiStarted == {f \in KpiFetchIds : kpiFetches[f].phase # "idle"}

\* A scan is written to the packages collection; the attached listener will
\* be notified.
PackagesChange(i) ==
    /\ KpiScan(i) \notin packages
    /\ listening => snapshots + Cardinality(KpiStarted) < MaxKpiFetches
    /\ packages' = packages \cup {KpiScan(i)}
    /\ snapshots' = IF listening THEN snapshots + 1 ELSE snapshots
    /\ UNCHANGED <<kpiData, kpiLoading, listening, kpiFetches>>

\* The listener's callback runs up to its await: fetchKpiData() up to its
\* await of getDocs(packagesCollection).
OnSnapshot ==
    LET f == Cardinality(KpiStarted) + 1 IN
    /\ snapshots > 0
    /\ f \in KpiFetchIds
    /\ snapshots' = snapshots - 1
    /\ kpiFetches' = [kpiFetches EXCEPT ![f].phase = "sent"]
    /\ UNCHANGED <<kpiData, kpiLoading, listening, packages>>

\* The backend answers a getDocs with the documents the collection holds.
GetDocsAnswered(f) ==
    /\ kpiFetches[f].phase = "sent"
    /\ kpiFetches' = [kpiFetches EXCEPT ![f] = [phase |-> "answered", docs |-> packages]]
    /\ UNCHANGED <<kpiData, kpiLoading, listening, snapshots, packages>>

\* The answer arrives: fetchKpiData returns the aggregates, and the callback
\* calls setKpiData and setIsLoading(false).
FetchKpiDataOk(f) ==
    /\ kpiFetches[f].phase = "answered"
    /\ kpiData' = KpiOf(kpiFetches[f].docs)
    /\ kpiLoading' = FALSE
    /\ kpiFetches' = [kpiFetches EXCEPT ![f].phase = "done"]
    /\ UNCHANGED <<listening, snapshots, packages>>

\* getDocs rejects: fetchKpiData catches and returns its default values, which
\* the callback sets.
FetchKpiDataFail(f) ==
    /\ kpiFetches[f].phase = "sent"
    /\ kpiData' = DefaultKpiData
    /\ kpiLoading' = FALSE
    /\ kpiFetches' = [kpiFetches EXCEPT ![f].phase = "failed"]
    /\ UNCHANGED <<listening, snapshots, packages>>

\* The listener's error callback: setIsLoading(false); the listener is gone.
SnapshotError ==
    /\ listening
    /\ listening' = FALSE
    /\ kpiLoading' = FALSE
    /\ UNCHANGED <<kpiData, snapshots, kpiFetches, packages>>

KpiIdle ==
    /\ kpiData = InitialKpiData
    /\ kpiLoading = TRUE
    /\ listening = FALSE
    /\ snapshots = 0
    /\ kpiFetches = [f \in KpiFetchIds |-> NoKpiFetch]

\* KpiSummaryRow as mounted: the listener is attached and its first
\* notification is due.
KpiInit ==
    /\ kpiData = InitialKpiData
    /\ kpiLoading = TRUE
    /\ listening = TRUE
    /\ snapshots = 1
    /\ kpiFetches = [f \in KpiFetchIds |-> NoKpiFetch]

\* The variables each part leaves alone.
hookState == <<options, data, page, hasNext, loading, error, totalCount, cursors,
               mounted, hookCall, pageQuery, countQuery, settled, issued>>
notDev == <<hookVars, strVars, delVars, csvVars, expVars, carVars, authVars,
    tblVars, raceVars, rowVars, kpiVars>>
notHook == <<devVars, strVars, delVars, csvVars, expVars, carVars, authVars,
    tblVars, raceVars, rowVars, kpiVars>>
notStr == <<devVars, hookVars, delVars, csvVars, expVars, carVars, authVars,
    tblVars, raceVars, rowVars, kpiVars>>
notDel == <<devVars, strVars, csvVars, expVars, carVars, authVars,
    tblVars, raceVars, rowVars, kpiVars>>
notCsv == <<devVars, hookVars, strVars, delVars, expVars, carVars, authVars,
    tblVars, raceVars, rowVars, kpiVars>>
notExp == <<devVars, strVars, delVars, carVars, authVars,
    tblVars, raceVars, rowVars, kpiVars>>
notCar == <<devVars, hookVars, strVars, delVars, csvVars, expVars, authVars,
    tblVars, raceVars, rowVars, kpiVars>>
notAuth == <<devVars, hookVars, strVars, delVars, csvVars, expVars, carVars,
    tblVars, raceVars, rowVars, kpiVars>>
notTbl == <<devVars, hookVars, strVars, delVars, csvVars, expVars, carVars,
    authVars, raceVars, rowVars, kpiVars>>
notRace == <<devVars, strVars, delVars, csvVars, expVars, carVars, authVars,
    tblVars, rowVars, kpiVars>>
notRows == <<devVars, strVars, delVars, csvVars, expVars, carVars, authVars,
    tblVars, raceVars, kpiVars>>
notKpi == <<devVars, strVars, delVars, csvVars, expVars, carVars, authVars,
    tblVars, raceVars, rowVars>>
hookInner == <<options, data, page, hasNext, loading, error, totalCount, cursors,
               mounted, hookCall, pageQuery, countQuery, settled, issued>>

\* Concurrent registerDeviceIfNew calls on an empty devices collection.
InitDevice ==
    DevInit /\ HookIdle /\ StrIdle /\ DelIdle /\ CsvIdle /\ ExpIdle /\ CarIdle
    /\ AuthIdle
    /\ TblIdle
    /\ RaceIdle
    /\ RowsIdle
    /\ KpiIdle
NextDevice ==
    \/ \E p \in Procs, id \in DeviceIds \cup {EmptyId} :
          Register(p, id) /\ UNCHANGED notDev
    \/ \E p \in Procs : TxGet(p) /\ UNCHANGED notDev
    \/ \E p \in Procs : TxNewDevice(p) /\ UNCHANGED notDev
    \/ \E p \in Procs : TxCommit(p) /\ UNCHANGED notDev
    \/ \E p \in Procs : TxConflict(p) /\ UNCHANGED notDev
    \/ \E p \in Procs : TxError(p) /\ UNCHANGED notDev
    \/ Tick /\ UNCHANGED notDev
SpecDevice == InitDevice /\ [][NextDevice]_vars

\* The pagination hook, its navigation calls made one after the other, over
\* an unchanging collection and unchanging options.
InitHook ==
    HookInit /\ DevInit /\ StrIdle /\ DelIdle /\ CsvIdle /\ ExpIdle /\ CarIdle
    /\ AuthIdle
    /\ TblIdle
    /\ RaceIdle
    /\ RowsIdle
    /\ KpiIdle
NextHook ==
    \/ ResetEffect /\ UNCHANGED notHook
    \/ RunPageOk /\ UNCHANGED notHook
    \/ \E e \in Rejections : RunPageFail(e) /\ UNCHANGED notHook
    \/ FetchCountOk /\ UNCHANGED notHook
    \/ FetchCountFail /\ UNCHANGED notHook
    \/ NextPage /\ UNCHANGED notHook
    \/ PrevPage /\ UNCHANGED notHook
    \/ \E target \in 0 .. MaxTarget : GoToPage(target) /\ UNCHANGED notHook
    \/ GoToPageResume /\ UNCHANGED notHook
SpecHook == InitHook /\ [][NextHook]_vars

\* The range of one startsWith filter, tried on one stored string.
InitRange ==
    StrInit /\ DevInit /\ HookIdle /\ DelIdle /\ CsvIdle /\ ExpIdle /\ CarIdle
    /\ AuthIdle
    /\ TblIdle
    /\ RaceIdle
    /\ RowsIdle
    /\ KpiIdle
NextRange ==
    \/ BuildRange /\ UNCHANGED notStr
    \/ MatchStored /\ UNCHANGED notStr
SpecRange == InitRange /\ [][NextRange]_vars

\* The delete dialog of the Admin page or of the Home page. A call of the
\* handler waits for the queries of the Home page's table to settle, and
\* these queries succeed.
InitDelete ==
    /\ DelInit /\ DevInit /\ StrIdle /\ CsvIdle /\ ExpIdle /\ CarIdle /\ AuthIdle
    /\ \E n \in 0 .. MaxDeleteDocs :
          HookIdleWith({DeletePackage(i) : i \in 1 .. n})
    /\ TblIdle
    /\ RaceIdle
    /\ RowsIdle
    /\ KpiIdle
NextDelete ==
    \/ \E open \in BOOLEAN : SetShowDeleteModal(open) /\ UNCHANGED <<notDel, hookState>>
    \/ \E date \in DateChoices \cup {NoDate} :
          SetStartDate(date) /\ UNCHANGED <<notDel, hookState>>
    \/ \E date \in DateChoices \cup {NoDate} :
          SetEndDate(date) /\ UNCHANGED <<notDel, hookState>>
    \/ /\ ~pageQuery.active /\ ~countQuery
       /\ HandleDeleteByDateRange /\ UNCHANGED <<notDel, hookState>>
    \/ DeleteSnapshot /\ UNCHANGED <<notDel, hookState>>
    \/ DeleteOne /\ UNCHANGED <<notDel, hookState>>
    \/ DeleteDone /\ UNCHANGED notDel
    \/ DeleteError /\ UNCHANGED <<notDel, hookState>>
    \/ RunPageOk /\ UNCHANGED notHook
    \/ FetchCountOk /\ UNCHANGED notHook
SpecDelete == InitDelete /\ [][NextDelete]_vars

\* The text of one export, generated from any list of items.
InitCsv ==
    CsvInit /\ DevInit /\ HookIdle /\ StrIdle /\ DelIdle /\ ExpIdle /\ CarIdle
    /\ AuthIdle
    /\ TblIdle
    /\ RaceIdle
    /\ RowsIdle
    /\ KpiIdle
NextCsv ==
    \/ GenerateCsv /\ UNCHANGED notCsv
SpecCsv == InitCsv /\ [][NextCsv]_vars

\* The export modal over a collection that does not change.
InitExport ==
    /\ ExpIdle /\ CsvIdle /\ DevInit /\ StrIdle /\ DelIdle /\ CarIdle /\ AuthIdle
    /\ \E n \in 0 .. MaxExportDocs :
          HookIdleWith({ExportPackage(i) : i \in 1 .. n})
    /\ TblIdle
    /\ RaceIdle
    /\ RowsIdle
    /\ KpiIdle
NextExport ==
    \/ OpenExportModal /\ UNCHANGED <<notExp, hookInner>>
    \/ \E ok \in BOOLEAN : FetchAllCarriers(ok) /\ UNCHANGED <<notExp, hookInner>>
    \/ CloseExportModal /\ UNCHANGED <<notExp, hookInner>>
    \/ \E date \in DayChoices \cup {NoDate} :
          SelectStartDate(date) /\ UNCHANGED <<notExp, hookInner>>
    \/ \E date \in DayChoices \cup {NoDate} :
          SelectEndDate(date) /\ UNCHANGED <<notExp, hookInner>>
    \/ \E value \in availableCarriers \cup {AllCarriers} :
          HandleCarrierChange(value) /\ UNCHANGED <<notExp, hookInner>>
    \/ HandleExportCSV /\ UNCHANGED <<notExp, hookInner>>
    \/ ExportQueryOk /\ UNCHANGED <<notExp, hookInner>>
    \/ ExportQueryFail /\ UNCHANGED <<notExp, hookInner>>
SpecExport == InitExport /\ [][NextExport]_vars

\* The normalization of one carrier value, and of its result.
InitCarrier ==
    CarInit /\ DevInit /\ HookIdle /\ StrIdle /\ DelIdle /\ CsvIdle /\ ExpIdle
    /\ AuthIdle
    /\ TblIdle
    /\ RaceIdle
    /\ RowsIdle
    /\ KpiIdle
NextCarrier ==
    \/ CountScan /\ UNCHANGED notCar
    \/ CountScanAgain /\ UNCHANGED notCar
SpecCarrier == InitCarrier /\ [][NextCarrier]_vars

\* The session, the routes and the login form.
InitAuth ==
    /\ AuthInit /\ DevInit /\ HookIdle /\ StrIdle /\ DelIdle /\ CsvIdle /\ ExpIdle
    /\ CarIdle
    /\ TblIdle
    /\ RaceIdle
    /\ RowsIdle
    /\ KpiIdle
NextAuth ==
    \/ \E path \in Paths : Browse(path) /\ UNCHANGED notAuth
    \/ Redirect /\ UNCHANGED notAuth
    \/ \E value \in {"", "user@example.com"} : SetEmail(value) /\ UNCHANGED notAuth
    \/ \E value \in {"", "secret"} : SetPassword(value) /\ UNCHANGED notAuth
    \/ HandleSubmit /\ UNCHANGED notAuth
    \/ SignInOk /\ UNCHANGED notAuth
    \/ \E code \in AuthErrors : SignInFail(code) /\ UNCHANGED notAuth
    \/ SignOut /\ UNCHANGED notAuth
    \/ AuthStateChanged /\ UNCHANGED notAuth
    \/ TokenResolved /\ UNCHANGED notAuth
SpecAuth == InitAuth /\ [][NextAuth]_vars

\* The search box of the table, typed into, cleared, paged and refreshed.
InitTable ==
    /\ TblIdle /\ DevInit /\ HookIdle /\ StrIdle /\ DelIdle /\ CsvIdle /\ ExpIdle
    /\ CarIdle /\ AuthIdle
    /\ RaceIdle
    /\ RowsIdle
    /\ KpiIdle
NextTable ==
    \/ \E value \in SearchTexts : HandleInputChange(value) /\ UNCHANGED notTbl
    \/ Elapse /\ UNCHANGED notTbl
    \/ \E t \in timers : SearchTimeout(t) /\ UNCHANGED notTbl
    \/ ClearSearch /\ UNCHANGED notTbl
    \/ \E p \in 1 .. MaxTablePage : HandlePageChange(p) /\ UNCHANGED notTbl
    \/ HandleRefresh /\ UNCHANGED notTbl
    \/ RefreshFetch /\ UNCHANGED notTbl
SpecTable == InitTable /\ [][NextTable]_vars

\* The hook while its options change and reset() is called.
InitRace ==
    /\ RaceInit /\ DevInit /\ StrIdle /\ DelIdle /\ CsvIdle /\ ExpIdle /\ CarIdle
    /\ AuthIdle /\ TblIdle
    /\ RowsIdle
    /\ KpiIdle
NextRace ==
    \/ Mount /\ UNCHANGED notRace
    \/ \E opts \in RaceOptions : SetOptions(opts) /\ UNCHANGED notRace
    \/ ResetCall /\ UNCHANGED notRace
    \/ NextPageCall /\ UNCHANGED notRace
    \/ RunPageOk /\ UNCHANGED raceVars /\ UNCHANGED notRace
    \/ \E e \in RaceRejections : RunPageFail(e) /\ UNCHANGED raceVars
                                    /\ UNCHANGED notRace
    \/ \E q \in stale : StaleRunPageOk(q) /\ UNCHANGED notRace
    \/ \E q \in stale, e \in RaceRejections : StaleRunPageFail(q, e)
                                               /\ UNCHANGED notRace
    \/ \E c \in counts : CountOk(c) /\ UNCHANGED notRace
SpecRace == InitRace /\ [][NextRace]_vars

\* The rows of the table, paged, filtered and searched.
InitRows ==
    /\ RowsInit /\ HookIdleWith({RowDoc(i) : i \in 1 .. MaxRowDocs})
    /\ DevInit /\ StrIdle /\ DelIdle /\ CsvIdle /\ ExpIdle /\ CarIdle
    /\ AuthIdle /\ TblIdle /\ RaceIdle
    /\ KpiIdle
NextRows ==
    \/ \E n \in 1 .. MaxRowDocs : TablePageChange(n) /\ UNCHANGED hookVars
                                   /\ UNCHANGED notRows
    \/ \E carrier \in RowCarriers : TableCarrierChange(carrier)
                                    /\ UNCHANGED hookVars /\ UNCHANGED notRows
    \/ \E value \in RowSearches : SetSearchQuery(value) /\ UNCHANGED hookVars
                                  /\ UNCHANGED notRows
    \/ FetchPagedOk /\ UNCHANGED hookVars /\ UNCHANGED notRows
    \/ FetchPagedFail /\ UNCHANGED hookVars /\ UNCHANGED notRows
    \/ FetchTotalOk /\ UNCHANGED hookVars /\ UNCHANGED notRows
SpecRows == InitRows /\ [][NextRows]_vars

\* The KPI row while scans are added to the collection.
InitKpi ==
    /\ KpiInit /\ HookIdle
    /\ DevInit /\ StrIdle /\ DelIdle /\ CsvIdle /\ ExpIdle /\ CarIdle
    /\ AuthIdle /\ TblIdle /\ RaceIdle /\ RowsIdle
NextKpi ==
    \/ \E i \in 1 .. MaxKpiScans : PackagesChange(i) /\ UNCHANGED hookInner
                                   /\ UNCHANGED notKpi
    \/ OnSnapshot /\ UNCHANGED hookInner /\ UNCHANGED notKpi
    \/ \E f \in KpiFetchIds : GetDocsAnswered(f) /\ UNCHANGED hookInner
                              /\ UNCHANGED notKpi
    \/ \E f \in KpiFetchIds : FetchKpiDataOk(f) /\ UNCHANGED hookInner
                              /\ UNCHANGED notKpi
    \/ \E f \in KpiFetchIds : FetchKpiDataFail(f) /\ UNCHANGED hookInner
                              /\ UNCHANGED notKpi
    \/ SnapshotError /\ UNCHANGED hookInner /\ UNCHANGED notKpi
SpecKpi == InitKpi /\ [][NextKpi]_vars

(***************************************************************************)
(* Device service: the claims.                                             *)
(***************************************************************************)
\* The calls for device d that have returned.
DoneCalls(d) == {p \in Procs : calls[p].pc = "done" /\ calls[p].deviceId = d}

\* C1: for every device id, under every interleaving of registerDeviceIfNew
\* calls, at most one document is ever created, the label written at creation
\* is never changed by a later call, and every call that returns returns it.
C1_OneLabelPerDevice ==
    \A d \in DeviceIds :
        /\ created[d] <= 1
        /\ devices[d].exists => devices[d].label = firstLabel[d]
        /\ \A p \in DoneCalls(d) :
              devices[d].exists /\ calls[p].result = firstLabel[d]

\* Two calls for one device have returned, one of them after a lost race.
C1_Witness ==
    \E d \in DeviceIds : \E p, q \in DoneCalls(d) :
        p # q /\ calls[q].attempts >= 2 /\ created[d] = 1

\* C2: no two device documents hold the same generated label.
C2_DistinctLabels ==
    \A d, e \in DeviceIds :
        (d # e /\ devices[d].exists /\ devices[e].exists)
            => devices[d].label # devices[e].label

ResultSet ==
    LET built == BuildConstraints(options) IN
    SortDocs(Matching(built.constraints), built.effectiveOrderByField,
             options.direction)

\* totalPages: Math.max(1, Math.ceil(totalCount / pageSize))
NumPages ==
    Max(1, (Len(ResultSet) + options.pageSize - 1) \div options.pageSize)

\* The records at positions (p-1)*pageSize+1 .. p*pageSize of the result set.
Chunk(p) ==
    SubSeq(ResultSet, (p - 1) * options.pageSize + 1,
           Min(p * options.pageSize, Len(ResultSet)))

\* d comes strictly before e in the effective sort order.
Earlier(d, e) ==
    Before(BuildConstraints(options).effectiveOrderByField, options.direction, d, e)

Records(seq) == {seq[i] : i \in 1 .. Len(seq)}

\* This step settles the getDocs of runPage, successfully.
PageLoaded == pageQuery.active /\ ~pageQuery'.active /\ settled'.outcome = "ok"
\* This step settles the getDocs of runPage, which rejects.
PageFailed == pageQuery.active /\ ~pageQuery'.active /\ settled'.outcome = "rejected"

\* C4: when nextPage, prevPage, goToPage(N) or the initial load finishes with a
\* loaded page p that is no greater than the number of existing pages, page is
\* p and data is exactly the p-th chunk of pageSize records of the filtered
\* result set in the effective sort order.
C4_PageIsRequestedChunk ==
    [][(PageLoaded /\ hookCall.phase = "final" /\ hookCall.target <= NumPages)
          => (page' = hookCall.target /\ data' = Chunk(hookCall.target))]_vars

\* Back on page 2 with both filters set, after page 3 had been visited.
C4_Witness ==
    /\ hookCall.phase = "done" /\ hookCall.kind \in {"prev", "goto"}
    /\ settled.outcome = "ok"
    /\ page = 2 /\ Len(cursors) >= 4 /\ NumPages >= 3
    /\ data = Chunk(2) /\ data # <<>>

\* C5: after every successful page load, hasNext is true if and only if at
\* least one record of the filtered, ordered result set lies after the last
\* record of the page just loaded.
C5_HasNextIffMore ==
    (mounted /\ ~pageQuery.active /\ settled.outcome = "ok")
        => (hasNext <=>
               /\ data # <<>>
               /\ \E d \in Records(ResultSet) : Earlier(data[Len(data)], d))

\* A page after the first was loaded, and a further page exists.
C5_Witness ==
    /\ mounted /\ ~pageQuery.active /\ settled.outcome = "ok"
    /\ page >= 2 /\ hasNext /\ Len(data) = options.pageSize
    /\ options.filters # <<>>

\* C6: after each successful nextPage the cursor stored for the new page is
\* strictly later in the sort order than the cursor stored for the previous
\* page, and no record is on both pages.
C6_CursorsMonotonic ==
    [][(PageLoaded /\ hookCall.kind = "next")
          => /\ CursorAt(cursors', page' - 1) # NullCursor
             /\ Earlier(CursorAt(cursors', page' - 1), CursorAt(cursors', page'))
             /\ Records(data) \cap Records(data') = {}]_vars

\* nextPage has loaded page 3 of a result set ordered by its range field.
C6_Witness ==
    /\ hookCall.phase = "done" /\ hookCall.kind = "next"
    /\ settled.outcome = "ok"
    /\ page >= 3 /\ data # <<>>

\* C8: when a page query of runPage fails, error becomes a non-null string (the
\* error's message, or 'Failed to fetch data' when it has none), loading is
\* false again, and page, data, hasNext and the cursors keep the values they
\* had when the query was issued.
C8_FailureKeepsState ==
    [][PageFailed
          => /\ ~error'.isNull
             /\ error'.message = IF settled'.reason.hasMessage
                                 THEN settled'.reason.message
                                 ELSE "Failed to fetch data"
             /\ ~loading'
             /\ <<page', data', hasNext', cursors'>> = pageQuery.before]_vars

\* A query for page 3 was rejected with a value that has no message; page 2
\* is still shown.
C8_Witness ==
    /\ settled.outcome = "rejected" /\ ~settled.reason.hasMessage
    /\ hookCall.phase = "done" /\ hookCall.kind = "next"
    /\ ~error.isNull /\ ~loading
    /\ page = 2 /\ data # <<>> /\ hasNext

\* C9: there is no retry: goToPage(target) issues at most target queries.
C9_GoToPageIssuesAtMostTarget ==
    (hookCall.kind = "goto" /\ hookCall.phase # "done")
        => issued <= hookCall.target

(***************************************************************************)
(* Prefix range and bulk deletion: the claims.                             *)
(***************************************************************************)
\* C7: for every non-empty search value v and every stored string s, s
\* satisfies the range built for the startsWith filter (s >= v and
\* s < nextString(v)) if and only if s begins with v.
C7_RangeIffPrefix ==
    inRange # "" => (inRange = "yes" <=> StartsWith(storedString, searchValue))

\* Both dates are set, the end is not before the start and the span is at most
\* 90 days.
ValidRange(start, end) ==
    /\ start # NoDate /\ end # NoDate
    /\ end >= start
    /\ end - start <= MaxRangeDays * TicksPerDay

\* C10: handleDeleteByDateRange issues no database read and no delete unless
\* both dates are set, the end date is not before the start date and the span
\* is at most 90 days; in each rejected case it shows a message and leaves the
\* dialog, the chosen dates and isDeleting unchanged.
C10_ValidatesBeforeBackend ==
    [][/\ (deleteRun'.reads > 0 \/ deleteRun'.deletes > 0 \/ packages' # packages)
            => ValidRange(deleteRun'.startDate, deleteRun'.endDate)
       /\ (clicks' # clicks /\ ~ValidRange(startDate, endDate))
            => /\ deleteRun'.pc = "rejected"
               /\ deleteRun'.toast.message # ""
               /\ deleteRun'.reads = 0 /\ deleteRun'.deletes = 0
               /\ UNCHANGED <<showDeleteModal, startDate, endDate, isDeleting,
                              packages>>]_vars

\* A range of 90 days and one instant was rejected with the dialog open, in a
\* collection that holds packages of that range.
C10_Witness ==
    /\ deleteRun.pc = "rejected"
    /\ deleteRun.startDate # NoDate
    /\ deleteRun.endDate - deleteRun.startDate = MaxRangeDays * TicksPerDay + 1
    /\ deleteRun.toast = RejectSpan(pageVariant)
    /\ showDeleteModal /\ ~isDeleting
    /\ startDate = deleteRun.startDate /\ endDate = deleteRun.endDate
    /\ \E pkg \in packages : InDeleteRange(pkg, deleteRun)

\* The documents whose timestamp lies from the first instant of the day of
\* start to the last instant of the day of end.
BetweenDays(docs, start, end) ==
    {d \in docs : /\ d.timestamp >= start - (start % TicksPerDay)
                  /\ d.timestamp <= end - (end % TicksPerDay) + TicksPerDay - 1}

\* C12: a successful bulk deletion deletes exactly the packages whose
\* timestamp lies between the start of the start date and the end of the end
\* date, inclusive, leaves every other package as it was, and reports the
\* number of packages it deleted.
C12_DeletesExactlyRange ==
    deleteRun.pc = "done" =>
        LET gone == BetweenDays(deleteRun.snapshot, deleteRun.startDate,
                                   deleteRun.endDate) IN
        /\ packages = deleteRun.snapshot \ gone
        /\ deleteRun.toast = DeleteSucceeded(Cardinality(gone))

\* A deletion ended that deleted a package scanned at the last instant of its
\* range's last day or at the first instant of its first day, and kept a package.
C12_Witness ==
    /\ deleteRun.pc = "done"
    /\ deleteRun.toast.count >= 1
    /\ packages # {}
    /\ \E d \in deleteRun.snapshot \ packages :
          \/ d.timestamp = EndOfDay(deleteRun.endDate)
          \/ d.timestamp = StartOfDay(deleteRun.startDate)

(***************************************************************************)
(* CSV export: the claims. A reader of the file follows the usual quoting  *)
(* rules: a field in double quotes ends at a double quote that no second   *)
(* double quote follows, and holds the commas and line breaks before it.   *)
(***************************************************************************)
\* The records read from text, each a sequence of fields; ok is FALSE when a
\* quoted field does not end or is followed by more than a separator, quoted
\* is FALSE once a field did not start with a double quote.
RECURSIVE CsvScan(_, _, _, _, _, _)
CsvScan(text, mode, field, record, records, quoted) ==
    IF text = <<>>
    THEN CASE mode = "quoted" -> [ok |-> FALSE, records |-> records, quoted |-> quoted]
           [] mode = "start" /\ record = <<>> ->
                [ok |-> TRUE, records |-> records, quoted |-> quoted]
           [] OTHER -> [ok |-> TRUE, quoted |-> quoted /\ mode = "closing",
                        records |-> Append(records, Append(record, field))]
    ELSE LET c == Head(text)
             rest == Tail(text) IN
         CASE mode = "quoted" ->
                IF c = DQ THEN CsvScan(rest, "closing", field, record, records, quoted)
                ELSE CsvScan(rest, "quoted", Append(field, c), record, records, quoted)
           [] mode = "closing" /\ c = DQ ->
                CsvScan(rest, "quoted", Append(field, DQ), record, records, quoted)
           [] mode = "start" /\ c = DQ ->
                CsvScan(rest, "quoted", <<>>, record, records, quoted)
           [] mode \in {"start", "bare", "closing"} /\ c = "," ->
                CsvScan(rest, "start", <<>>, Append(record, field), records,
                        quoted /\ mode = "closing")
           [] mode \in {"start", "bare", "closing"} /\ c = "\n" ->
                CsvScan(rest, "start", <<>>, <<>>,
                        Append(records, Append(record, field)),
                        quoted /\ mode = "closing")
           [] mode \in {"start", "bare"} /\ c \notin {DQ, ",", "\n"} ->
                CsvScan(rest, "bare", Append(field, c), record, records, quoted)
           [] OTHER -> [ok |-> FALSE, records |-> records, quoted |-> quoted]

ReadCsv(text) == CsvScan(text, "start", <<>>, <<>>, <<>>, TRUE)

\* The lines of text: what stands before each line break.
RECURSIVE Lines(_, _)
Lines(text, line) ==
    IF text = <<>> THEN (IF line = <<>> THEN <<>> ELSE <<line>>)
    ELSE IF Head(text) = "\n" THEN <<line>> \o Lines(Tail(text), <<>>)
    ELSE Lines(Tail(text), Append(line, Head(text)))

\* The seven values of an item, in the header's order.
Values(item) ==
    <<item.tracking, item.carrier, item.timestamp, item.deviceId, item.latitude,
      item.longitude, item.username>>

\* C13: every generated export starts with the header row, followed by exactly
\* one line per exported record, each line holding exactly seven
\* comma-separated double-quoted fields.
C13_HeaderAndSevenQuotedFields ==
    csvContent # <<>> =>
        LET lines == Lines(csvContent, <<>>) IN
        /\ Len(lines) = 1 + Len(items)
        /\ lines[1] = SubSeq(CsvHeader, 1, Len(CsvHeader) - 1)
        /\ \A k \in 2 .. Len(lines) :
              LET read == ReadCsv(lines[k]) IN
              /\ read.ok /\ read.quoted
              /\ Len(read.records) = 1
              /\ Len(read.records[1]) = 7

\* C14: whatever quotes or commas the values of the exported records contain,
\* reading the rows of the file by the quoting rules yields, record by record,
\* the seven values of each item.
C14_EscapingRoundTrips ==
    csvContent # <<>> =>
        LET read == ReadCsv(SubSeq(csvContent, Len(CsvHeader) + 1, Len(csvContent))) IN
        /\ read.ok
        /\ read.records = [k \in 1 .. Len(items) |-> Values(items[k])]

\* The range is present, ordered and spans at most 90 days.
ValidExportRange(range) ==
    /\ range.startDate # NoDate /\ range.endDate # NoDate
    /\ range.startDate <= range.endDate
    /\ range.endDate - range.startDate <= MaxRangeDays

\* C11: handleExportCSV issues no database query unless the date range is
\* present, ordered and spans at most 90 days; otherwise it rejects with a
\* user message and produces no file.
C11_ExportValidatesBeforeQuery ==
    [][/\ exportRun'.queries > 0 => ValidExportRange(exportRun'.range)
       /\ (exportClicks' # exportClicks /\ ~ValidExportRange(dateRange))
            => /\ exportRun'.pc = "rejected"
               /\ exportRun'.toast.message # ""
               /\ exportRun'.queries = 0
               /\ csvContent' = <<>>]_vars

\* C15: carrier-name normalization is idempotent: for every carrier value,
\* normalizing the normalized name again returns the same name.
C15_NormalizeIdempotent ==
    Len(normalized) = 2 => normalized[2] = normalized[1]

(***************************************************************************)
(* Session and routes: the claims.                                         *)
(***************************************************************************)
\* C16: the content of a protected route is rendered only when
\* isAuthenticated is true and loading is false; when loading is false and the
\* user is not authenticated the guard redirects to '/login' keeping the
\* requested location, and an authenticated user at '/login' is redirected to
\* that location or '/'.
C16_RoutesGuarded ==
    /\ screen.element \in {"Home", "Admin"} => isAuthenticated /\ ~authLoading
    /\ (~authLoading /\ ~isAuthenticated /\ location.pathname \in {"/", "/admin"})
          => screen = [element |-> "Navigate", to |-> "/login",
                       from |-> location.pathname]
    /\ (~authLoading /\ isAuthenticated /\ location.pathname = "/login")
          => /\ screen.element = "Navigate"
             /\ screen.to = IF location.from = "" THEN "/" ELSE location.from

\* An authenticated user is at '/login', where the guard of '/admin' sent them,
\* and is about to be sent back there.
C16_Witness ==
    /\ isAuthenticated /\ ~authLoading
    /\ location = [pathname |-> "/login", from |-> "/admin"]
    /\ screen.element = "Navigate" /\ screen.to = "/admin"

\* C17: after login() or register() rejects and loading has returned to
\* false, the login form that is displayed shows the message
\* getFirebaseErrorMessage gives, which is not empty.
C17_FailedSignInShown ==
    [][(submit.pc = "awaiting" /\ submit'.pc = "rejected"
            /\ ~authLoading' /\ screen'.element = "Login")
          => /\ loginForm'.error = GetFirebaseErrorMessage(submit'.code)
             /\ loginForm'.error # ""]_vars

(***************************************************************************)
(* The search box of the table: the claims.                                *)
(***************************************************************************)
\* C18: a typed value becomes the search text only when it is the value of
\* the last keystroke, DebounceMs have passed since that keystroke, and the
\* value is empty when trimmed or has at least 3 trimmed characters; the
\* search text of a query never has a trimmed length of 1 or 2, and a query
\* searches for nothing or for the current search text, so the value of a
\* keystroke superseded within the delay is never queried.
C18_SearchDebounced ==
    [][/\ searchQuery' \notin {searchQuery, <<>>}
            => /\ keystroke.value = searchQuery'
               /\ keystroke.age >= DebounceMs
               /\ Len(Trim(searchQuery')) \notin {1, 2}
       /\ tableQuery' # tableQuery
            => /\ Len(Trim(tableQuery'.search)) \notin {1, 2}
               /\ tableQuery'.search \in {<<>>, searchQuery'}]_vars

\* The timer of the last keystroke has run and started the search for its
\* value, a text of at least 3 trimmed characters, which the table has queried.
C18_Witness ==
    /\ Len(Trim(searchQuery)) >= 3
    /\ keystroke.value = searchQuery
    /\ tableQuery.search = searchQuery
    /\ searchTimeoutRef # 0 /\ timers = {}

(***************************************************************************)
(* The pagination hook under changes of its options: the claims.            *)
(***************************************************************************)
\* The step is a run of the reset effect after a change of the options, or a
\* call of reset(): a getDocs is issued on behalf of a reset.
ResetStep ==
    /\ mounted
    /\ \/ options' # options
       \/ /\ hookCall'.kind = "reset"
          /\ \/ Cardinality(stale') > Cardinality(stale)
             \/ ~pageQuery.active /\ pageQuery'.active

\* The page a query yields: its first pageSize documents.
PageOf(q) == LET docs == GetDocs(q) IN SubSeq(docs, 1, Min(q.pageSize, Len(docs)))

\* C19: whenever the filters, the page size, the sort field or the direction
\* change, or reset() is called, the cursors become [null], page 1, data
\* empty, hasNext false and error null, the query of page 1 and the count
\* are issued with the constraints of the new options, and the response to
\* that query loads page 1 of the new result set.
C19_ChangeResetsAndReloads ==
    [][/\ ResetStep =>
            /\ cursors' = <<NullCursor>>
            /\ page' = 1
            /\ data' = <<>>
            /\ hasNext' = FALSE
            /\ error' = NoError
            /\ pageQuery'.active
            /\ pageQuery'.pageIndex = 1
            /\ pageQuery'.after = NullCursor
            /\ pageQuery'.constraints = BuildConstraints(options').constraints
            /\ pageQuery'.orderField = BuildConstraints(options').effectiveOrderByField
            /\ pageQuery'.direction = options'.direction
            /\ pageQuery'.take = options'.pageSize + 1
            /\ BuildConstraints(options').constraints \in counts'
       /\ (PageLoaded /\ hookCall.kind = "reset") =>
            /\ page' = 1
            /\ data' = LET all == SortDocs(Matching(BuildConstraints(options).constraints),
                                          BuildConstraints(options).effectiveOrderByField,
                                          options.direction)
                       IN SubSeq(all, 1, Min(options.pageSize, Len(all)))]_vars

\* The options changed to a filter while the query of page 2 was in flight:
\* the hook is back on page 1 with no data and one cursor, and asks for page 1
\* under the filter.
C19_Witness ==
    /\ \E q \in stale : q.pageIndex = 2 /\ q.constraints = <<>>
    /\ options.filters = <<CarrierFilter>>
    /\ pageQuery.active /\ pageQuery.pageIndex = 1
    /\ pageQuery.constraints # <<>>
    /\ page = 1 /\ data = <<>> /\ cursors = <<NullCursor>>

\* C20: once no getDocs is in flight any more, and the one issued last has
\* resolved, data, page, hasNext and the cursors are what that query produced,
\* whatever was in flight when it was issued and whenever that resolved.
C20_LatestQueryWins ==
    (/\ mounted /\ latest.active
     /\ ~pageQuery.active /\ stale = {}
     /\ settled.outcome = "ok")
    => /\ data = PageOf(latest)
       /\ page = latest.pageIndex
       /\ hasNext = (Len(GetDocs(latest)) > latest.pageSize)
       /\ cursors = SetCursor(latest.before[4], latest.pageIndex,
                      IF PageOf(latest) # <<>>
                      THEN PageOf(latest)[Len(PageOf(latest))]
                      ELSE NullCursor)

(***************************************************************************)
(* Pagination hook: pages past the end.                                    *)
(***************************************************************************)
\* C21: when goToPage(target) with target greater than the number of existing
\* pages finishes with a loaded page, data is empty and hasNext is false: the
\* records of an earlier page are never shown under page number target.
C21_PastEndIsEmpty ==
    [][(PageLoaded /\ hookCall.kind = "goto" /\ hookCall.phase = "final"
            /\ hookCall.target > NumPages)
          => (data' = <<>> /\ hasNext' = FALSE)]_vars

(***************************************************************************)
(* The rows of the table: the claims.                                      *)
(***************************************************************************)
\* The packages the current search and carrier select, in the current sort
\* order.
FilteredRows ==
    SortDocs({d \in packages :
                 /\ Searching(filterState.searchQuery)
                       => StartsWith(d.tracking, TrimUnits(filterState.searchQuery))
                 /\ filterState.selectedCarrier # ""
                       => d.carrier = filterState.selectedCarrier},
             filterState.sortField, filterState.sortDirection)

\* The n-th chunk of itemsPerPage of them.
RowsChunk(n) ==
    SubSeq(FilteredRows, (n - 1) * paginationState.itemsPerPage + 1,
           Min(n * paginationState.itemsPerPage, Len(FilteredRows)))

\* C22: when the fetch that handlePageChange(n) triggered, n in 1..totalPages,
\* has loaded its page, the rows displayed are the n-th chunk of itemsPerPage
\* records of the current filtered result in the current sort order.
C22_PageButtonShowsChunk ==
    [][(rowsFetch.pc = "page" /\ rowsFetch.cause = "page"
            /\ rowsFetch'.pc = "count" /\ ~tableError')
          => trackingItems' = RowsChunk(rowsFetch.page)]_vars

\* C23: with a search of at least 3 characters and a carrier selected, once
\* the rows and the count are fetched every row has the selected carrier and
\* a tracking number starting with the search text, and totalItems is the
\* number of packages that have both.
C23_SearchAndCarrierBothHold ==
    (/\ rowsFetch.pc = "idle" /\ ~tableError
     /\ Searching(filterState.searchQuery)
     /\ filterState.selectedCarrier # "")
    => /\ \A i \in 1 .. Len(trackingItems) :
            /\ trackingItems[i].carrier = filterState.selectedCarrier
            /\ StartsWith(trackingItems[i].tracking,
                          TrimUnits(filterState.searchQuery))
       /\ paginationState.totalItems = Len(FilteredRows)

\* The package the export is asked for: its dateYmd lies between the two
\* days, both included, and all carriers are selected or its carrier name
\* contains the selected one.
Qualifies(d, range, carrier) ==
    /\ range.startDate <= d.dateYmd /\ d.dateYmd <= range.endDate
    /\ carrier = AllCarriers \/ Includes(CarrierName(d.carrier), carrier)

\* One row per document, in the order of the documents.
RowsOf(docs) ==
    [k \in 1 .. Len(docs) |->
        TrackingItem(docs[k].tracking, CarrierName(docs[k].carrier),
                     docs[k].username, docs[k].located)]

\* C24: when the export query resolves, the exported rows are those of
\* exactly the packages whose dateYmd lies in the range, both ends included,
\* and whose carrier name contains the selected carrier (or all carriers are
\* selected); when none qualifies no file is produced, the error message is
\* shown and the export leaves the dialog as it is; and loading is false
\* whenever no export is waiting for its query.
C24_ExportSelectsByDateAndCarrier ==
    [][/\ (exportRun.pc = "querying" /\ exportRun'.pc \in {"empty", "done"})
            => LET chosen == {d \in packages :
                                Qualifies(d, exportRun.range, exportRun.carrier)} IN
               /\ items' = RowsOf(SortDocs(chosen, "timestamp", "desc"))
               /\ chosen = {} => /\ exportRun'.pc = "empty"
                                 /\ csvContent' = <<>>
                                 /\ exportRun'.toast = NoRecordsFound
                                 /\ isOpen' = isOpen
               /\ chosen # {} => /\ exportRun'.pc = "done"
                                 /\ csvContent' = CsvContent(items')
       /\ exportRun'.pc # "querying" => ~exportLoading']_vars

\* An export of one carrier finished with fewer rows than there are packages.
C24_Witness ==
    /\ exportRun.pc = "done"
    /\ exportRun.carrier # AllCarriers
    /\ items # <<>>
    /\ Len(items) < Cardinality(packages)

\* The text of the label 'Scanner Device n', and of a raw device id.
LabelText(n) == <<"Scanner Device ", ToString(n)>>
IdText(deviceId) == <<"device-", ToString(deviceId)>>

\* What the label service's getDeviceLabel resolves to: 'N/A' without a
\* device id, the cached label, else the label of the stored document, else
\* the raw device id.
GetDeviceLabel(deviceId) ==
    IF deviceId = EmptyId THEN <<"N/A">>
    ELSE IF deviceLabelCache[deviceId] # 0 THEN LabelText(deviceLabelCache[deviceId])
    ELSE IF devices[deviceId].exists THEN LabelText(devices[deviceId].label)
    ELSE IdText(deviceId)

\* C25: the Device ID field of every exported row is the friendly label the
\* label service returns for some device id: the cached or stored label, the
\* raw device id when there is no label, or 'N/A' when there is no device id.
C25_DeviceIdIsServiceLabel ==
    \A k \in 1 .. Len(items) :
        \E deviceId \in {EmptyId} \cup DeviceIds :
            items[k].deviceId = GetDeviceLabel(deviceId)

\* Every notification of onAuthStateChanged has been handled and every
\* handler has finished: none waits for getIdToken().
AuthHandlersDone == authEvents = <<>> /\ tokenWaits = 0

\* C26: the authentication state follows the identity provider's latest
\* notification: once every handler has finished and the provider's last
\* notification was a sign-out, isAuthenticated is false (user and token,
\* which setAuthState writes together with it, are null).
C26_AuthFollowsLatestNotification ==
    (AuthHandlersDone /\ ~firebaseUser) => ~isAuthenticated

\* No registerDeviceIfNew call on the device is inside its transaction.
NoTransactionOn(d) ==
    \A p \in Procs : calls[p].deviceId = d => calls[p].pc \notin {"get", "label", "commit"}

\* C27: an entry of the in-memory label cache equals the label of the
\* device's stored record: once no registerDeviceIfNew transaction on the
\* device is running, retried or failed ones included, the cache holds no
\* label that was never committed.
C27_CacheAgreesWithStore ==
    \A d \in DeviceIds :
        (NoTransactionOn(d) /\ deviceLabelCache[d] # 0)
            => (devices[d].exists /\ devices[d].label = deviceLabelCache[d])

\* The listener is attached, every notification has been handled, and every
\* fetchKpiData call made has completed with the documents it asked for.
KpiSettled ==
    /\ listening /\ snapshots = 0
    /\ KpiStarted # {}
    /\ \A f \in KpiStarted : kpiFetches[f].phase = "done"

\* C28: once every notification on packages has been handled and every
\* fetchKpiData call they triggered has completed, the KPI values displayed
\* are those aggregated from the collection as it is now, whatever order the
\* fetches completed in.
C28_KpiShowsLatestContents ==
    KpiSettled => kpiData = KpiOf(packages)

============================================================================
